---- MODULE Spec2Model ----
(***************************************************************************)
(* Model of the GitTrack webhook ingestion core                            *)
(* (src/src/handlers/webhookHandler.js and the handlers it dispatches to). *)
(*                                                                         *)
(* One webhook request is processed at a time.  Every await of the code    *)
(* (store call, chat-client call) is one step whose outcome is chosen      *)
(* nondeterministically among the outcomes the collaborator can produce    *)
(* (success, null / non text channel, exception).  Strings that the code   *)
(* slices or compares by prefix/suffix are sequences of characters.        *)
(***************************************************************************)
EXTENDS Integers, Sequences, FiniteSets, TLC

VARIABLES
  repositories,   \* Repository table, in findMany order
  trackedBranches,\* TrackedBranch table, in findMany order
  eventChannels,  \* RepositoryEventChannel table, in findFirst order
  messagesSent,   \* Server.messagesSent, per server id
  errorLog,       \* ErrorLog table (append only)
  systemLog,      \* SystemLog table (append only)
  globalSecret,   \* process.env.GITHUB_WEBHOOK_SECRET
  maxChannels,    \* getMaxChannelsAllowed(): a number, or Unlimited
  pc,             \* position of the request being processed
  req,            \* the request being processed
  candidates,     \* candidateRepositories of the dispatcher
  ctx,            \* validatedRepositoryContext / repoContext
  handler,        \* the event handler the dispatcher invoked
  responses,      \* HTTP status codes emitted for the request, in order
  responseSent,   \* responseSent of handleEventWithLogging
  loc,            \* locals of the running handler
  obs,            \* what the request did so far (sends, attempts, ...)
  served,         \* number of requests received so far
  calls           \* calls of the routing and matcher functions, with results

vars == <<repositories, trackedBranches, eventChannels, messagesSent, errorLog,
          systemLog, globalSecret, maxChannels, pc, req, candidates, ctx,
          handler, responses, responseSent, loc, obs, served, calls>>

storeVars ==
  <<repositories, trackedBranches, eventChannels, globalSecret, maxChannels, served, calls>>

----------------------------------------------------------------------------
(* Bounds of the model                                                     *)

MaxRequests == 1    \* number of requests a behaviour processes

----------------------------------------------------------------------------
(* Strings                                                                 *)

Null == "null"            \* JS null / undefined of a string valued field
Unlimited == 0 - 1        \* Infinity of getMaxChannelsAllowed

StartsWith(s, p) == Len(s) >= Len(p) /\ SubSeq(s, 1, Len(p)) = p
EndsWith(s, p) == Len(s) >= Len(p) /\ SubSeq(s, Len(s) - Len(p) + 1, Len(s)) = p

DotGit == <<".", "g", "i", "t">>
RefsHeads == <<"r", "e", "f", "s", "/", "h", "e", "a", "d", "s", "/">>
RefsTags == <<"r", "e", "f", "s", "/", "t", "a", "g", "s", "/">>
SlashStar == <<"/", "*">>
Star == <<"*">>

UrlA == <<"g", "h", "/", "a">>          \* a repository URL
UrlAGit == UrlA \o DotGit               \* the same repository, .git form
UrlX == <<"g", "h", "/", "x">>          \* a repository nobody configured
NoUrl == <<>>                           \* payload without repository.html_url

BrMain == <<"m", "a", "i", "n">>
BrRel == <<"r", "e", "l", "/", "v", "2">>
BrDev == <<"d", "e", "v">>
PatRel == <<"r", "e", "l">> \o SlashStar

----------------------------------------------------------------------------
(* Servers, channels, secrets                                              *)

Servers == {"s1", "s2"}
Channels == {"c1", "c2", "c3"}
\* the guild a chat channel lives in
ChannelServer(c) == IF c = "c3" THEN "s2" ELSE "s1"

NoRepo == [id |-> 0, serverId |-> Null, url |-> NoUrl, webhookSecret |-> Null,
           notificationChannelId |-> Null]

\* HMAC-SHA256(secret, rawBody), hex encoded: an injective function of both
Hmac(secret, body) == <<secret, body>>

----------------------------------------------------------------------------
(* Requests                                                                *)

Keys == {"k1", "k2", "kG", "kX"}
RawBody == "b1"           \* the raw bytes of the request
OtherBody == "b0"         \* the bytes before one of them was flipped

NoSig == [present |-> FALSE, prefixed |-> FALSE, mac |-> Hmac(Null, Null)]
Sig(prefixed, key, body) == [present |-> TRUE, prefixed |-> prefixed, mac |-> Hmac(key, body)]
Signatures ==
  {NoSig, Sig(FALSE, "k1", RawBody), Sig(TRUE, "k1", OtherBody)}
    \cup {Sig(TRUE, k, RawBody) : k \in Keys}
GoodSignatures == {Sig(TRUE, k, RawBody) : k \in {"k1", "k2", "kG"}}

ContentTypes == {"json", "form", "absent"}
Urls == {UrlA, UrlAGit, UrlX, NoUrl}

Payload(event, action, ref, state) ==
  [event |-> event, action |-> action, ref |-> ref, state |-> state]

\* the payloads GitHub sends for each event type (the fields the handlers read)
Payloads ==
  {Payload("push", Null, r, Null) :
      r \in {RefsHeads \o BrMain, RefsHeads \o BrRel, RefsHeads \o BrDev, RefsTags \o BrDev}}
  \cup {Payload(e, a, <<>>, Null) : e \in {"pull_request", "issues"}, a \in {"opened", "closed"}}
  \cup {Payload("star", a, <<>>, Null) : a \in {"created", "deleted"}}
  \cup {Payload("release", a, <<>>, Null) : a \in {"published", "edited"}}
  \cup {Payload(e, Null, <<>>, Null) : e \in {"fork", "create", "delete", "ping"}}
  \cup {Payload("issue_comment", a, <<>>, Null) : a \in {"created", "edited"}}
  \cup {Payload("pull_request_review", a, <<>>, s) :
          a \in {"submitted", "dismissed"}, s \in {"approved", "commented"}}
  \cup {Payload("pull_request_review_comment", a, <<>>, Null) : a \in {"created", "deleted"}}
  \cup {Payload("milestone", a, <<>>, Null) : a \in {"created", "closed", "edited"}}
  \cup {Payload("workflow_run", a, b, Null) : a \in {"completed", "requested"}, b \in {BrMain, BrDev}}
  \cup {Payload(e, a, <<>>, Null) : e \in {"workflow_job", "check_run"}, a \in {"completed", "created"}}
  \cup {Payload("deployment_status", "created", <<>>, Null)}

NoEventPayload == Payload(Null, Null, <<>>, Null)

Request(ct, url, sig, p) ==
  [contentType |-> ct, url |-> url, signature |-> sig, event |-> p.event,
   action |-> p.action, ref |-> p.ref, state |-> p.state]

\* every combination of headers, with one payload; and every payload, with
\* the headers of a request that can pass the checks
Requests ==
  {Request(ct, u, sg, p) : ct \in ContentTypes, u \in Urls, sg \in Signatures,
      p \in {NoEventPayload, Payload("issues", "opened", <<>>, Null)}}
  \cup {Request("json", UrlA, sg, p) : sg \in GoodSignatures, p \in Payloads}

NoRequest == Request("absent", NoUrl, NoSig, NoEventPayload)

----------------------------------------------------------------------------
(* Request locals                                                          *)

Result(code, channelId, delivered) ==
  [statusCode |-> code, channelId |-> channelId, delivered |-> delivered]
NoResult == Result(0, Null, FALSE)

InitLoc == [result |-> NoResult, can |-> TRUE, chan |-> Null,
            targets |-> <<>>, idx |-> 0, lastChan |-> Null]

\* sent: the chat messages delivered, in order; attempts: the channels of
\* the notification deliveries started (botClient.channels.fetch reached);
\* blocked: the channels of the deliveries the limit guard refused
InitObs == [sent |-> <<>>, attempts |-> <<>>, startSent |-> [s \in Servers |-> 0],
            updFailed |-> FALSE, blocked |-> <<>>, storeFailed |-> FALSE,
            startErr |-> 0, startSys |-> 0, logFailed |-> FALSE]

Message(ch, kind) == [channel |-> ch, kind |-> kind]

----------------------------------------------------------------------------
(* The store                                                               *)

Repo(id, server, url, secret, ch) ==
  [id |-> id, serverId |-> server, url |-> url, webhookSecret |-> secret,
   notificationChannelId |-> ch]
Tracked(repoId, pattern, ch) ==
  [repositoryId |-> repoId, branchName |-> pattern, channelId |-> ch]

\* (secret of repository 1, secret of repository 2, global secret); the
\* schema allows a repository without a secret (webhookSecret String?)
SecretSetups ==
  {<<"k1", "k2", "kG">>, <<Null, Null, "kG">>, <<Null, "k2", Null>>, <<"k1", "k1", Null>>}

\* two servers track the same repository, one under each form of its URL;
\* the default channel of the first may be missing (notificationChannelId
\* String?)
InitRepositories(sec, ch1) ==
  <<Repo(1, "s1", UrlA, sec[1], ch1), Repo(2, "s2", UrlAGit, sec[2], "c3")>>

\* a pull_request mapping as the set-event-channel command leaves it after
\* the channel was chosen and the comments filter was switched on (the
\* config it writes holds actionsEnabled only)
PullRequestCommentsMapping ==
  [repositoryId |-> 1, eventType |-> "pull_request", channelId |-> "c2",
   config |-> [actionsEnabled |-> [a \in {"opened", "closed", "reopened", "comments"} |-> TRUE],
               explicitChannel |-> FALSE]]

\* rows as /link writes them, and one without a channel of its own, which
\* the schema allows (channelId String?) and the handlers provide for
InitTracked ==
  <<Tracked(1, Star, "c1"), Tracked(1, PatRel, "c2"), Tracked(1, BrMain, Null),
    Tracked(2, Star, "c3")>>

Init ==
  /\ \E sec \in SecretSetups, ch1 \in {"c1", Null} :
       /\ repositories = InitRepositories(sec, ch1)
       /\ globalSecret = sec[3]
  /\ trackedBranches = InitTracked
  /\ eventChannels \in {<<>>, <<PullRequestCommentsMapping>>}
  /\ messagesSent = [s \in Servers |-> 0]
  /\ errorLog = <<>>
  /\ systemLog = <<>>
  /\ maxChannels \in {Unlimited, 1}
  /\ pc = "idle"
  /\ req = NoRequest
  /\ candidates = <<>>
  /\ ctx = NoRepo
  /\ handler = Null
  /\ responses = <<>>
  /\ responseSent = FALSE
  /\ loc = InitLoc
  /\ obs = InitObs
  /\ served = 0
  /\ calls = <<>>

----------------------------------------------------------------------------
(* The dispatcher: app.post('/github-webhook')                             *)

\* res.status(code).send(...) followed by return
Reply(code) ==
  /\ responses' = Append(responses, code)
  /\ pc' = "done"

\* a request out of the given set arrives
ReceiveFrom(requests) ==
  /\ pc = "idle"
  /\ served < MaxRequests
  /\ served' = served + 1
  /\ \E r \in requests : req' = r
  /\ pc' = "contentType"
  /\ obs' = [InitObs EXCEPT !.startSent = messagesSent, !.startErr = Len(errorLog),
                            !.startSys = Len(systemLog)]
  /\ UNCHANGED <<repositories, trackedBranches, eventChannels, globalSecret, maxChannels,
                 messagesSent, errorLog, systemLog, candidates, ctx,
                 handler, responses, responseSent, loc, calls>>

\* a request arrives
Receive == ReceiveFrom(Requests)

\* if (contentType && !contentType.includes('application/json'))
CheckContentType ==
  /\ pc = "contentType"
  /\ pc' = IF req.contentType \notin {"absent", "json"} THEN "notify" ELSE "payload"
  /\ UNCHANGED <<storeVars, messagesSent, errorLog, systemLog, req, candidates, ctx,
                 handler, responses, responseSent, loc, obs>>

\* the middleware parses the body only when the content type is JSON
ParsedUrl(r) == IF r.contentType = "json" THEN r.url ELSE NoUrl

\* if (!payload || !payload.repository || !payload.repository.html_url)
CheckPayload ==
  /\ pc = "payload"
  /\ IF ParsedUrl(req) = NoUrl
       THEN Reply(400)
       ELSE pc' = "lookup" /\ UNCHANGED responses
  /\ UNCHANGED <<storeVars, messagesSent, errorLog, systemLog, req, candidates, ctx,
                 handler, responseSent, loc, obs>>

PossibleUrls(u) ==
  IF EndsWith(u, DotGit) THEN {u, SubSeq(u, 1, Len(u) - 4)} ELSE {u, u \o DotGit}

FindRepositoriesByUrl(u) ==
  SelectSeq(repositories, LAMBDA r : r.url \in PossibleUrls(u))

\* LookupRepositories with the return of the 404 branch missing: the request
\* goes on to the signature check after the 404 was sent
LookupRepositoriesNoReturn ==
  /\ pc = "lookup"
  /\ \/ /\ pc' = "outerCatch"
        /\ obs' = [obs EXCEPT !.storeFailed = TRUE]
        /\ UNCHANGED <<candidates, responses>>
     \/ /\ candidates' = FindRepositoriesByUrl(req.url)
        /\ responses' = IF candidates' = <<>> THEN Append(responses, 404) ELSE responses
        /\ pc' = "signature"
        /\ UNCHANGED obs
  /\ UNCHANGED <<storeVars, messagesSent, errorLog, systemLog, req, ctx,
                 handler, responseSent, loc>>

\* prisma.repository.findMany, then the 404 check; a store failure goes to
\* the catch block of the dispatcher
LookupRepositories ==
  /\ pc = "lookup"
  /\ \/ /\ pc' = "outerCatch"
        /\ obs' = [obs EXCEPT !.storeFailed = TRUE]
        /\ UNCHANGED <<candidates, responses>>
     \/ /\ candidates' = FindRepositoriesByUrl(req.url)
        /\ IF candidates' = <<>>
             THEN Reply(404)
             ELSE pc' = "signature" /\ UNCHANGED responses
        /\ UNCHANGED obs
  /\ UNCHANGED <<storeVars, messagesSent, errorLog, systemLog, req, ctx,
                 handler, responseSent, loc>>

\* if (!signature)
CheckSignature ==
  /\ pc = "signature"
  /\ IF ~req.signature.present
       THEN Reply(401)
       ELSE pc' = "validate" /\ UNCHANGED responses
  /\ UNCHANGED <<storeVars, messagesSent, errorLog, systemLog, req, candidates, ctx,
                 handler, responseSent, loc, obs>>

\* repoEntry.webhookSecret || process.env.GITHUB_WEBHOOK_SECRET
SecretToUse(r) == IF r.webhookSecret # Null THEN r.webhookSecret ELSE globalSecret

\* Validates without the comparison of the two digests
ValidatesAnyDigest(r, sig) ==
  /\ SecretToUse(r) # Null
  /\ sig.prefixed

\* one iteration of the signature loop: does this candidate validate?
Validates(r, sig) ==
  /\ SecretToUse(r) # Null
  /\ sig.prefixed
  /\ sig.mac = Hmac(SecretToUse(r), RawBody)

RECURSIVE ValidateFrom(_, _, _)
\* for (const repoEntry of candidateRepositories) { ... break; }
ValidateFrom(cands, i, sig) ==
  IF i > Len(cands) THEN NoRepo
  ELSE IF Validates(cands[i], sig) THEN cands[i]
  ELSE ValidateFrom(cands, i + 1, sig)

\* ValidateSignature with the event header looked at before the signature
ValidateSignatureEventFirst ==
  /\ pc = "validate"
  /\ ctx' = ValidateFrom(candidates, 1, req.signature)
  /\ IF req.event = Null
       THEN Reply(400)
       ELSE IF ctx' = NoRepo
         THEN Reply(401)
         ELSE pc' = "event" /\ UNCHANGED responses
  /\ UNCHANGED <<storeVars, messagesSent, errorLog, systemLog, req, candidates,
                 handler, responseSent, loc, obs>>

\* the signature loop and if (!validatedRepositoryContext)
ValidateSignature ==
  /\ pc = "validate"
  /\ ctx' = ValidateFrom(candidates, 1, req.signature)
  /\ IF ctx' = NoRepo
       THEN Reply(401)
       ELSE pc' = "event" /\ UNCHANGED responses
  /\ UNCHANGED <<storeVars, messagesSent, errorLog, systemLog, req, candidates,
                 handler, responseSent, loc, obs>>

\* if (!event)
CheckEvent ==
  /\ pc = "event"
  /\ IF req.event = Null
       THEN Reply(400)
       ELSE pc' = "dispatch" /\ UNCHANGED responses
  /\ UNCHANGED <<storeVars, messagesSent, errorLog, systemLog, req, candidates, ctx,
                 handler, responseSent, loc, obs>>


\* switch (event): the handler each case passes to handleEventWithLogging;
\* Null for the default case
HandlerFor(event) ==
  CASE event = "push" -> "handlePushEvent"
    [] event = "pull_request" -> "handlePullRequestEvent"
    [] event = "issues" -> "handleIssuesEvent"
    [] event = "star" -> "handleStarEvent"
    [] event = "release" -> "handleReleaseEvent"
    [] event = "delete" -> "handleDeleteEvent"
    [] event = "create" -> "handleCreateEvent"
    [] event = "fork" -> "handleForkEvent"
    [] event = "issue_comment" -> "handleIssueCommentEvent"
    [] event = "pull_request_review" -> "handlePRReviewEvent"
    [] event = "pull_request_review_comment" -> "handlePRReviewCommentEvent"
    [] event = "milestone" -> "handleMilestoneEvent"
    [] event = "workflow_run" -> "handleWorkflowRunEvent"
    [] event = "ping" -> "handlePingEvent"
    [] OTHER -> Null

\* the switch statement: a case calls handleEventWithLogging, which calls
\* the handler; the default case goes on to the SystemLog write
Dispatch ==
  /\ pc = "dispatch"
  /\ handler' = HandlerFor(req.event)
  /\ pc' = IF handler' = Null THEN "unhandled" ELSE "handler"
  /\ UNCHANGED <<storeVars, messagesSent, errorLog, systemLog, req, candidates, ctx,
                 responses, responseSent, loc, obs>>

LogRow(server, event, action) == [serverId |-> server, eventType |-> event, action |-> action]

\* Unhandled without the try/catch around prisma.systemLog.create
UnhandledLogUncaught ==
  /\ pc = "unhandled"
  /\ \/ /\ systemLog' = Append(systemLog, LogRow(ctx.serverId, req.event, req.action))
        /\ Reply(200)
        /\ UNCHANGED obs
     \/ /\ obs' = [obs EXCEPT !.logFailed = TRUE]
        /\ pc' = "outerCatch"
        /\ UNCHANGED <<systemLog, responses>>
  /\ UNCHANGED <<storeVars, messagesSent, errorLog, req, candidates, ctx,
                 handler, responseSent, loc>>

\* default: prisma.systemLog.create inside try/catch, then 200
Unhandled ==
  /\ pc = "unhandled"
  /\ \/ systemLog' = Append(systemLog, LogRow(ctx.serverId, req.event, req.action))
        /\ UNCHANGED obs
     \/ obs' = [obs EXCEPT !.logFailed = TRUE] /\ UNCHANGED systemLog
  /\ Reply(200)
  /\ UNCHANGED <<storeVars, messagesSent, errorLog, req, candidates, ctx,
                 handler, responseSent, loc>>

\* catch (error) of the dispatcher.  validatedRepositoryContext (line 115)
\* and startTime (line 157) are declared with let/const inside the try
\* block, so they are not in scope in the catch block: building the argument
\* of prisma.errorLog.create (lines 223, 230) raises a ReferenceError, which
\* the inner try/catch swallows.  prisma.errorLog.create is never called, so
\* no row is written; the 500 is sent.
OuterCatch ==
  /\ pc = "outerCatch"
  /\ Reply(500)
  /\ UNCHANGED <<storeVars, messagesSent, errorLog, systemLog, req, candidates, ctx,
                 handler, responseSent, loc, obs>>

----------------------------------------------------------------------------
(* handleEventWithLogging                                                  *)

\* const sendResponse = (statusCode, message) => { if (responseSent) return; ... }
SendResponse(code) ==
  /\ responses' = IF responseSent THEN responses ELSE Append(responses, code)
  /\ responseSent' = TRUE

\* the handler returned a result: sendResponse(result.statusCode, ...)
HandlerReturned ==
  /\ pc = "returned"
  /\ SendResponse(IF loc.result.statusCode # 0 THEN loc.result.statusCode ELSE 200)
  /\ pc' = "done"
  /\ UNCHANGED <<storeVars, messagesSent, errorLog, systemLog, req, candidates, ctx,
                 handler, loc, obs>>

\* a catch block that logs the error without sending the 500
HandlerThrewUnanswered ==
  /\ pc = "threw"
  /\ pc' = "logError"
  /\ UNCHANGED <<storeVars, messagesSent, errorLog, systemLog, req, candidates, ctx,
                 handler, loc, obs, responses, responseSent>>

\* catch (error): sendResponse(500, ...) before the error is logged
HandlerThrew ==
  /\ pc = "threw"
  /\ SendResponse(500)
  /\ pc' = "logError"
  /\ UNCHANGED <<storeVars, messagesSent, errorLog, systemLog, req, candidates, ctx,
                 handler, loc, obs>>

\* await prisma.errorLog.create({... context: { eventType, action, ... } })
\* inside try/catch
LogHandlerError ==
  /\ pc = "logError"
  /\ \/ errorLog' = Append(errorLog, LogRow(ctx.serverId, req.event, req.action))
        /\ UNCHANGED obs
     \/ obs' = [obs EXCEPT !.logFailed = TRUE] /\ UNCHANGED errorLog
  /\ pc' = "logErrorAgain"
  /\ UNCHANGED <<storeVars, messagesSent, systemLog, req, candidates, ctx,
                 handler, responses, responseSent, loc>>

\* prisma.errorLog.create({...}).catch(...): the second, non-blocking write
LogHandlerErrorAgain ==
  /\ pc = "logErrorAgain"
  /\ \/ errorLog' = Append(errorLog, LogRow(ctx.serverId, req.event, req.action))
        /\ UNCHANGED obs
     \/ obs' = [obs EXCEPT !.logFailed = TRUE] /\ UNCHANGED errorLog
  /\ pc' = "done"
  /\ UNCHANGED <<storeVars, messagesSent, systemLog, req, candidates, ctx,
                 handler, responses, responseSent, loc>>

\* the request is over: its locals are gone
Finish ==
  /\ pc = "done"
  /\ pc' = "idle"
  /\ req' = NoRequest
  /\ candidates' = <<>>
  /\ ctx' = NoRepo
  /\ handler' = Null
  /\ responses' = <<>>
  /\ responseSent' = FALSE
  /\ loc' = InitLoc
  /\ obs' = InitObs
  /\ UNCHANGED <<storeVars, messagesSent, errorLog, systemLog>>


----------------------------------------------------------------------------
(* tryNotifyContentTypeError                                               *)

FetchOutcomes == {"text", "null", "throw"}   \* "null": no channel, or not text based

\* the repository tryNotifyContentTypeError validates, NoRepo when it gives up
\* before the channel fetch
NoticeRepository ==
  IF req.url = NoUrl \/ ~req.signature.present THEN NoRepo
  ELSE ValidateFrom(FindRepositoriesByUrl(req.url), 1, req.signature)

\* the whole helper: every failure inside is caught and logged
TryNotifyContentTypeError ==
  /\ pc = "notify"
  /\ \/ /\ NoticeRepository # NoRepo
        /\ NoticeRepository.notificationChannelId \notin {Null, "pending"}
        /\ obs' = [obs EXCEPT !.sent = Append(@,
                     Message(NoticeRepository.notificationChannelId, "notice"))]
     \/ UNCHANGED obs    \* gave up, store failure, fetch or send failure
  /\ pc' = "rejectContentType"
  /\ UNCHANGED <<storeVars, messagesSent, errorLog, systemLog, req, candidates, ctx,
                 handler, responses, responseSent, loc>>

\* return res.status(400).json(errorResponse)
RejectContentType ==
  /\ pc = "rejectContentType"
  /\ Reply(400)
  /\ UNCHANGED <<storeVars, messagesSent, errorLog, systemLog, req, candidates, ctx,
                 handler, responseSent, loc, obs>>

----------------------------------------------------------------------------
(* Resource limit guard                                                    *)

Range(s) == {s[i] : i \in 1..Len(s)}

\* checkChannelLimit counting every channel a repository names, its default
\* channel included
CheckChannelLimitCountingDefaults(serverId, excludeChannelId, includeNewChannelId) ==
  LET repos == {x \in Range(repositories) : x.serverId = serverId}
      repoIds == {r.id : r \in repos}
      inUse == ({tb.channelId : tb \in {x \in Range(trackedBranches) :
                    x.repositoryId \in repoIds}}
                \cup {r.notificationChannelId : r \in repos}) \ {Null, excludeChannelId}
      potential == Cardinality(inUse) +
                   (IF includeNewChannelId # Null /\ includeNewChannelId \notin inUse
                      THEN 1 ELSE 0)
  IN IF maxChannels = Unlimited
       THEN [isAtLimit |-> FALSE, currentCount |-> 0, potentialCount |-> 0,
             remaining |-> Unlimited]
       ELSE [isAtLimit |-> potential > maxChannels, currentCount |-> Cardinality(inUse),
             potentialCount |-> potential,
             remaining |-> IF maxChannels > Cardinality(inUse)
                             THEN maxChannels - Cardinality(inUse) ELSE 0]

\* checkChannelLimit, the store read having succeeded
CheckChannelLimit(serverId, excludeChannelId, includeNewChannelId) ==
  LET repoIds == {r.id : r \in {x \in Range(repositories) : x.serverId = serverId}}
      inUse == {tb.channelId : tb \in {x \in Range(trackedBranches) :
                   /\ x.repositoryId \in repoIds
                   /\ x.channelId # Null
                   /\ x.channelId # excludeChannelId}}
      potential == Cardinality(inUse) +
                   (IF includeNewChannelId # Null /\ includeNewChannelId \notin inUse
                      THEN 1 ELSE 0)
  IN IF maxChannels = Unlimited
       THEN [isAtLimit |-> FALSE, currentCount |-> 0, potentialCount |-> 0,
             remaining |-> Unlimited]
       ELSE [isAtLimit |-> potential > maxChannels, currentCount |-> Cardinality(inUse),
             potentialCount |-> potential,
             remaining |-> IF maxChannels > Cardinality(inUse)
                             THEN maxChannels - Cardinality(inUse) ELSE 0]

\* checkChannelLimitAndWarn up to if (isAtLimit); a failed store read is
\* caught inside checkChannelLimit, which then reports isAtLimit: false
GuardCheckLimit ==
  /\ pc = "guard"
  /\ \/ /\ maxChannels # Unlimited
        /\ obs' = [obs EXCEPT !.storeFailed = TRUE]
        /\ loc' = [loc EXCEPT !.can = TRUE]
        /\ pc' = "guarded"
     \/ /\ UNCHANGED obs
        /\ IF CheckChannelLimit(ctx.serverId, Null, Null).isAtLimit
             THEN pc' = "warnFetch" /\ UNCHANGED loc
             ELSE pc' = "guarded" /\ loc' = [loc EXCEPT !.can = TRUE]
  /\ UNCHANGED <<storeVars, messagesSent, errorLog, systemLog, req, candidates, ctx,
                 handler, responses, responseSent>>

\* const channel = await botClient.channels.fetch(channelId) of the warning
GuardWarnFetch ==
  /\ pc = "warnFetch"
  /\ \E out \in FetchOutcomes :
       IF out = "text"
         THEN pc' = "warnSend" /\ UNCHANGED loc
         ELSE pc' = "guarded" /\ loc' = [loc EXCEPT !.can = FALSE]
  /\ UNCHANGED <<storeVars, messagesSent, errorLog, systemLog, req, candidates, ctx,
                 handler, responses, responseSent, obs>>

\* GuardWarnSend as a purely advisory guard: true whether or not the warning
\* was posted
GuardWarnSendAdvisory ==
  /\ pc = "warnSend"
  /\ \/ obs' = [obs EXCEPT !.sent = Append(@, Message(loc.chan, "warning"))]
     \/ UNCHANGED obs
  /\ loc' = [loc EXCEPT !.can = TRUE]
  /\ pc' = "guarded"
  /\ UNCHANGED <<storeVars, messagesSent, errorLog, systemLog, req, candidates, ctx,
                 handler, responses, responseSent>>

\* await channel.send(warning): return true when posted, false otherwise
GuardWarnSend ==
  /\ pc = "warnSend"
  /\ \/ /\ obs' = [obs EXCEPT !.sent = Append(@, Message(loc.chan, "warning"))]
        /\ loc' = [loc EXCEPT !.can = TRUE]
     \/ /\ loc' = [loc EXCEPT !.can = FALSE]
        /\ UNCHANGED obs
  /\ pc' = "guarded"
  /\ UNCHANGED <<storeVars, messagesSent, errorLog, systemLog, req, candidates, ctx,
                 handler, responses, responseSent>>


----------------------------------------------------------------------------
(* Handlers that deliver one message to the repository default channel:    *)
(* handlePullRequestEvent, handleIssuesEvent, handleStarEvent,             *)
(* handleReleaseEvent, handleForkEvent, handleCreateEvent,                 *)
(* handleDeleteEvent, handleIssueCommentEvent                              *)

DefaultChannelHandlers ==
  {"handlePullRequestEvent", "handleIssuesEvent", "handleStarEvent", "handleReleaseEvent",
   "handleForkEvent", "handleCreateEvent", "handleDeleteEvent", "handleIssueCommentEvent"}

\* the action filter at the top of a handler
AcknowledgedOnly(h, action) ==
  \/ h = "handleStarEvent" /\ action # "created"
  \/ h = "handleReleaseEvent" /\ action \notin {"published", "released"}
  \/ h = "handleIssueCommentEvent" /\ action # "created"

\* channelId of the result a handler returns when nothing was delivered
\* after the channel was resolved (no text channel, fetch or send failure)
ChannelWhenNotDelivered(h, chan) ==
  IF h \in {"handlePullRequestEvent", "handleIssuesEvent", "handleReleaseEvent",
            "handleForkEvent", "handleCreateEvent", "handleDeleteEvent", "handlePingEvent"}
    THEN chan ELSE Null

\* repoContext.notificationChannelId || 'pending'
DefaultChannel(r) ==
  IF r.notificationChannelId # Null THEN r.notificationChannelId ELSE "pending"

Return(result) ==
  /\ loc' = [loc EXCEPT !.result = result]
  /\ pc' = "returned"

\* the handler up to the call of checkChannelLimitAndWarn
DefaultChannelStart ==
  /\ pc = "handler"
  /\ handler \in DefaultChannelHandlers
  /\ IF AcknowledgedOnly(handler, req.action) \/ DefaultChannel(ctx) = "pending"
       THEN Return(Result(200, Null, FALSE))
       ELSE /\ loc' = [loc EXCEPT !.chan = DefaultChannel(ctx)]
            /\ pc' = "guard"
  /\ UNCHANGED <<storeVars, messagesSent, errorLog, systemLog, req, candidates, ctx,
                 handler, responses, responseSent, obs>>

\* if (!canSendNotification) return { statusCode: 200, ..., channelId: null }
DefaultChannelGuarded ==
  /\ pc = "guarded"
  /\ handler \in DefaultChannelHandlers
  /\ IF loc.can
       THEN pc' = "fetch" /\ UNCHANGED <<loc, obs>>
       ELSE /\ Return(Result(200, Null, FALSE))
            /\ obs' = [obs EXCEPT !.blocked = Append(@, loc.chan)]
  /\ UNCHANGED <<storeVars, messagesSent, errorLog, systemLog, req, candidates, ctx,
                 handler, responses, responseSent>>

\* handlers whose delivery is fetch, send, increment, return
SingleTargetHandlers ==
  DefaultChannelHandlers \cup
    {"handleMilestoneEvent", "handlePRReviewEvent", "handlePRReviewCommentEvent"}

\* const channel = await botClient.channels.fetch(channelId);
\* if (channel && channel.isTextBased())
DeliverFetch ==
  /\ pc = "fetch"
  /\ handler \in SingleTargetHandlers
  /\ obs' = [obs EXCEPT !.attempts = Append(@, loc.chan)]
  /\ \E out \in FetchOutcomes :
       IF out = "text"
         THEN pc' = "send" /\ UNCHANGED loc
         ELSE Return(Result(200, ChannelWhenNotDelivered(handler, loc.chan), FALSE))
  /\ UNCHANGED <<storeVars, messagesSent, errorLog, systemLog, req, candidates, ctx,
                 handler, responses, responseSent>>

\* DeliverSend outside the try block: a failed send leaves the handler as an
\* exception
DeliverSendThrows ==
  /\ pc = "send"
  /\ handler \in SingleTargetHandlers
  /\ \/ /\ obs' = [obs EXCEPT !.sent = Append(@, Message(loc.chan, "notification"))]
        /\ pc' = "update"
     \/ /\ pc' = "threw"
        /\ UNCHANGED obs
  /\ UNCHANGED <<storeVars, messagesSent, errorLog, systemLog, req, candidates, ctx,
                 handler, responses, responseSent, loc>>

\* const sentMessage = await channel.send({ embeds: [embed] })
DeliverSend ==
  /\ pc = "send"
  /\ handler \in SingleTargetHandlers
  /\ \/ /\ obs' = [obs EXCEPT !.sent = Append(@, Message(loc.chan, "notification"))]
        /\ pc' = "update"
        /\ UNCHANGED loc
     \/ /\ Return(Result(200, ChannelWhenNotDelivered(handler, loc.chan), FALSE))
        /\ UNCHANGED obs
  /\ UNCHANGED <<storeVars, messagesSent, errorLog, systemLog, req, candidates, ctx,
                 handler, responses, responseSent>>

\* prisma.server.update({ data: { messagesSent: { increment: n } } }) in try/catch
Increment(n) ==
  \/ /\ messagesSent' = [messagesSent EXCEPT ![ctx.serverId] = @ + n]
     /\ UNCHANGED obs
  \/ /\ obs' = [obs EXCEPT !.updFailed = TRUE]
     /\ UNCHANGED messagesSent

\* the increment after the send, then return { ..., channelId, messageId }
DeliverUpdate ==
  /\ pc = "update"
  /\ handler \in SingleTargetHandlers
  /\ Increment(1)
  /\ Return(Result(200, loc.chan, TRUE))
  /\ UNCHANGED <<storeVars, errorLog, systemLog, req, candidates, ctx,
                 handler, responses, responseSent>>


----------------------------------------------------------------------------
(* Branch pattern matcher (src/src/functions/branchMatcher.js)             *)

\* a matcher whose prefix test leaves out the slash
matchesBranchPatternBarePrefix(branchName, pattern) ==
  IF pattern = Star THEN TRUE
  ELSE IF pattern = branchName THEN TRUE
  ELSE IF EndsWith(pattern, SlashStar)
    THEN StartsWith(branchName, SubSeq(pattern, 1, Len(pattern) - 2))
  ELSE FALSE

matchesBranchPattern(branchName, pattern) ==
  IF pattern = Star THEN TRUE
  ELSE IF pattern = branchName THEN TRUE
  ELSE IF EndsWith(pattern, SlashStar)
    THEN StartsWith(branchName, SubSeq(pattern, 1, Len(pattern) - 2) \o <<"/">>)
  ELSE FALSE

findMatchingBranches(rows, branchName) ==
  SelectSeq(rows, LAMBDA tb : matchesBranchPattern(branchName, tb.branchName))

----------------------------------------------------------------------------
(* Fan-out handlers: handlePushEvent and handleWorkflowRunEvent            *)

FanOutHandlers == {"handlePushEvent", "handleWorkflowRunEvent"}

\* branchRef.startsWith('refs/heads/') ? branchRef.substring(11) : null;
\* the empty sequence stands for null and for the empty string (both falsy)
BranchOfRef(ref) ==
  IF StartsWith(ref, RefsHeads) THEN SubSeq(ref, 12, Len(ref)) ELSE <<>>

TrackedOf(repoId) == SelectSeq(trackedBranches, LAMBDA tb : tb.repositoryId = repoId)

\* the branch lookup and pattern filter common to both handlers
MatchTracked(branchName) ==
  \/ /\ pc' = "threw"           \* prisma.trackedBranch.findMany failed
     /\ obs' = [obs EXCEPT !.storeFailed = TRUE]
     /\ UNCHANGED loc
  \/ /\ UNCHANGED obs
     /\ LET matching == findMatchingBranches(TrackedOf(ctx.id), branchName)
        IN IF matching = <<>>
             THEN Return(Result(200, Null, FALSE))
             ELSE /\ loc' = [loc EXCEPT !.targets = matching, !.idx = 1]
                  /\ pc' = "fanOut"

\* handlePushEvent up to the for loop; findMany is not inside a try block
PushStart ==
  /\ pc = "handler"
  /\ handler = "handlePushEvent"
  /\ IF BranchOfRef(req.ref) = <<>>
       THEN Return(Result(200, Null, FALSE)) /\ UNCHANGED obs
       ELSE MatchTracked(BranchOfRef(req.ref))
  /\ UNCHANGED <<storeVars, messagesSent, errorLog, systemLog, req, candidates, ctx,
                 handler, responses, responseSent>>

\* handleWorkflowRunEvent up to the for loop; the catch block rethrows
WorkflowRunStart ==
  /\ pc = "handler"
  /\ handler = "handleWorkflowRunEvent"
  /\ IF req.action # "completed"
       THEN Return(Result(200, Null, FALSE)) /\ UNCHANGED obs
       ELSE MatchTracked(req.ref)
  /\ UNCHANGED <<storeVars, messagesSent, errorLog, systemLog, req, candidates, ctx,
                 handler, responses, responseSent>>

\* tbConfig.channelId || repoContext.notificationChannelId || 'pending'
TargetChannel(tb, r) ==
  IF tb.channelId # Null THEN tb.channelId ELSE DefaultChannel(r)

NextTarget ==
  /\ loc' = [loc EXCEPT !.idx = @ + 1]
  /\ pc' = "fanOut"

\* the head of the for loop, and the return after it
FanOutNext ==
  /\ pc = "fanOut"
  /\ IF loc.idx > Len(loc.targets)
       THEN Return(Result(200, loc.lastChan, loc.lastChan # Null))
       ELSE LET ch == TargetChannel(loc.targets[loc.idx], ctx)
            IN IF ch = "pending"
                 THEN NextTarget
                 ELSE /\ loc' = [loc EXCEPT !.chan = ch]
                      /\ pc' = IF handler = "handlePushEvent" THEN "guard" ELSE "fetch"
  /\ UNCHANGED <<storeVars, messagesSent, errorLog, systemLog, req, candidates, ctx,
                 handler, responses, responseSent, obs>>

\* if (!canSendNotification) continue;
PushGuarded ==
  /\ pc = "guarded"
  /\ handler = "handlePushEvent"
  /\ IF loc.can
       THEN pc' = "fetch" /\ UNCHANGED <<loc, obs>>
       ELSE /\ NextTarget
            /\ obs' = [obs EXCEPT !.blocked = Append(@, loc.chan)]
  /\ UNCHANGED <<storeVars, messagesSent, errorLog, systemLog, req, candidates, ctx,
                 handler, responses, responseSent>>

\* the channel fetch of one target; a failure is caught per target
FanOutFetch ==
  /\ pc = "fetch"
  /\ handler \in FanOutHandlers
  /\ obs' = [obs EXCEPT !.attempts = Append(@, loc.chan)]
  /\ \E out \in FetchOutcomes :
       IF out = "text" THEN pc' = "send" /\ UNCHANGED loc ELSE NextTarget
  /\ UNCHANGED <<storeVars, messagesSent, errorLog, systemLog, req, candidates, ctx,
                 handler, responses, responseSent>>

\* FanOutSend with one try block around the whole loop: a failed send ends
\* the fan-out
FanOutSendStops ==
  /\ pc = "send"
  /\ handler \in FanOutHandlers
  /\ \/ /\ obs' = [obs EXCEPT !.sent = Append(@, Message(loc.chan, "notification"))]
        /\ loc' = [loc EXCEPT !.lastChan = loc.chan]
        /\ pc' = "update"
     \/ /\ Return(Result(200, loc.lastChan, loc.lastChan # Null))
        /\ UNCHANGED obs
  /\ UNCHANGED <<storeVars, messagesSent, errorLog, systemLog, req, candidates, ctx,
                 handler, responses, responseSent>>

\* the send of one target; lastMessageInfo keeps the last delivery
FanOutSend ==
  /\ pc = "send"
  /\ handler \in FanOutHandlers
  /\ \/ /\ obs' = [obs EXCEPT !.sent = Append(@, Message(loc.chan, "notification"))]
        /\ loc' = [loc EXCEPT !.lastChan = loc.chan]
        /\ pc' = "update"
     \/ /\ NextTarget
        /\ UNCHANGED obs
  /\ UNCHANGED <<storeVars, messagesSent, errorLog, systemLog, req, candidates, ctx,
                 handler, responses, responseSent>>

\* the increment of one target
FanOutUpdate ==
  /\ pc = "update"
  /\ handler \in FanOutHandlers
  /\ Increment(1)
  /\ NextTarget
  /\ UNCHANGED <<storeVars, errorLog, systemLog, req, candidates, ctx,
                 handler, responses, responseSent>>

----------------------------------------------------------------------------
(* handlePingEvent                                                         *)

PingStart ==
  /\ pc = "handler"
  /\ handler = "handlePingEvent"
  /\ IF DefaultChannel(ctx) = "pending"
       THEN Return(Result(200, Null, FALSE))
       ELSE /\ loc' = [loc EXCEPT !.chan = DefaultChannel(ctx)]
            /\ pc' = "guard"
  /\ UNCHANGED <<storeVars, messagesSent, errorLog, systemLog, req, candidates, ctx,
                 handler, responses, responseSent, obs>>

\* PingGuarded as in the other handlers: a refusal of the guard ends the
\* handler before the delivery
PingGuardedHonoured ==
  /\ pc = "guarded"
  /\ handler = "handlePingEvent"
  /\ IF loc.can
       THEN pc' = "fetch" /\ UNCHANGED <<loc, obs>>
       ELSE /\ Return(Result(200, Null, FALSE))
            /\ obs' = [obs EXCEPT !.blocked = Append(@, loc.chan)]
  /\ UNCHANGED <<storeVars, messagesSent, errorLog, systemLog, req, candidates, ctx,
                 handler, responses, responseSent>>

\* the result of the guard is not looked at
PingGuarded ==
  /\ pc = "guarded"
  /\ handler = "handlePingEvent"
  /\ pc' = "fetch"
  /\ UNCHANGED <<storeVars, messagesSent, errorLog, systemLog, req, candidates, ctx,
                 handler, responses, responseSent, loc, obs>>

PingFetch ==
  /\ pc = "fetch"
  /\ handler = "handlePingEvent"
  /\ obs' = [obs EXCEPT !.attempts = Append(@, loc.chan)]
  /\ \E out \in FetchOutcomes :
       IF out = "text"
         THEN pc' = "send" /\ UNCHANGED loc
         ELSE Return(Result(200, loc.chan, FALSE))
  /\ UNCHANGED <<storeVars, messagesSent, errorLog, systemLog, req, candidates, ctx,
                 handler, responses, responseSent>>

\* await channel.send({ embeds: [embed] }): the confirmation
PingSend ==
  /\ pc = "send"
  /\ handler = "handlePingEvent"
  /\ \/ /\ obs' = [obs EXCEPT !.sent = Append(@, Message(loc.chan, "notification"))]
        /\ pc' = "sendGuide"
        /\ UNCHANGED loc
     \/ /\ Return(Result(200, loc.chan, FALSE))
        /\ UNCHANGED obs
  /\ UNCHANGED <<storeVars, messagesSent, errorLog, systemLog, req, candidates, ctx,
                 handler, responses, responseSent>>

\* await channel.send({ embeds: [instructionsEmbed] }): the linking guide
PingSendGuide ==
  /\ pc = "sendGuide"
  /\ \/ /\ obs' = [obs EXCEPT !.sent = Append(@, Message(loc.chan, "notification"))]
        /\ pc' = "update"
        /\ UNCHANGED loc
     \/ /\ Return(Result(200, loc.chan, FALSE))
        /\ UNCHANGED obs
  /\ UNCHANGED <<storeVars, messagesSent, errorLog, systemLog, req, candidates, ctx,
                 handler, responses, responseSent>>

\* messagesSent: { increment: 2 } after both sends
PingUpdate ==
  /\ pc = "update"
  /\ handler = "handlePingEvent"
  /\ Increment(2)
  /\ Return(Result(200, loc.chan, FALSE))
  /\ UNCHANGED <<storeVars, errorLog, systemLog, req, candidates, ctx,
                 handler, responses, responseSent>>


----------------------------------------------------------------------------
(* Event channel mappings and the handlers that read them                  *)

Mapping(repoId, eventType, channelId, actionsEnabled, explicit) ==
  [repositoryId |-> repoId, eventType |-> eventType, channelId |-> channelId,
   config |-> [actionsEnabled |-> actionsEnabled, explicitChannel |-> explicit]]

NoActions == [a \in {} |-> TRUE]
NoMapping == Mapping(0, Null, Null, NoActions, FALSE)

RECURSIVE FindFirstFrom(_, _, _, _)
FindFirstFrom(rows, i, repoId, eventType) ==
  IF i > Len(rows) THEN NoMapping
  ELSE IF rows[i].repositoryId = repoId /\ rows[i].eventType = eventType THEN rows[i]
  ELSE FindFirstFrom(rows, i + 1, repoId, eventType)

\* prisma.repositoryEventChannel.findFirst({ where: { repositoryId, eventType } })
FindFirstMapping(repoId, eventType) == FindFirstFrom(eventChannels, 1, repoId, eventType)

\* the mapping handleMilestoneEvent creates when there is none
MilestoneDefaultMapping(repoId) ==
  Mapping(repoId, "milestone", "default",
          [a \in {"created", "opened", "closed"} |-> TRUE], FALSE)

\* a milestone handler without the action filter
MilestoneRouteUnfiltered(m) ==
  /\ loc' = [loc EXCEPT !.chan = DefaultChannel(ctx)]
  /\ pc' = "fetch"

\* handleMilestoneEvent from the channel resolution to the channel fetch
MilestoneRoute(m) ==
  LET explicit == m.config.explicitChannel
      effective ==
        IF m.channelId = "default" \/ (~explicit /\ m.channelId = ctx.notificationChannelId)
          THEN DefaultChannel(ctx)
          ELSE IF m.channelId # Null THEN m.channelId ELSE DefaultChannel(ctx)
      enabled == m.config.actionsEnabled
      filtered ==
        IF req.action \in DOMAIN enabled
          THEN ~enabled[req.action]
          ELSE req.action \notin {"created", "closed", "opened"}
  IN IF filtered \/ effective = "pending"
       THEN Return(Result(200, Null, FALSE))
       ELSE /\ loc' = [loc EXCEPT !.chan = effective]
            /\ pc' = "fetch"

\* a milestone handler whose catch block acknowledges a failed lookup
\* instead of rethrowing it
MilestoneFindMappingDegrades ==
  /\ pc = "handler"
  /\ handler = "handleMilestoneEvent"
  /\ \/ /\ Return(Result(200, Null, FALSE))
        /\ obs' = [obs EXCEPT !.storeFailed = TRUE]
     \/ /\ UNCHANGED obs
        /\ IF FindFirstMapping(ctx.id, "milestone") = NoMapping
             THEN pc' = "createMapping" /\ UNCHANGED loc
             ELSE MilestoneRoute(FindFirstMapping(ctx.id, "milestone"))
  /\ UNCHANGED <<storeVars, messagesSent, errorLog, systemLog, req, candidates, ctx,
                 handler, responses, responseSent>>

\* findFirst of the milestone mapping; a store failure reaches the outer
\* catch of the handler, which rethrows
MilestoneFindMapping ==
  /\ pc = "handler"
  /\ handler = "handleMilestoneEvent"
  /\ \/ /\ pc' = "threw"
        /\ obs' = [obs EXCEPT !.storeFailed = TRUE]
        /\ UNCHANGED loc
     \/ /\ UNCHANGED obs
        /\ IF FindFirstMapping(ctx.id, "milestone") = NoMapping
             THEN pc' = "createMapping" /\ UNCHANGED loc
             ELSE MilestoneRoute(FindFirstMapping(ctx.id, "milestone"))
  /\ UNCHANGED <<storeVars, messagesSent, errorLog, systemLog, req, candidates, ctx,
                 handler, responses, responseSent>>

\* prisma.repositoryEventChannel.create of the default mapping
MilestoneCreateMapping ==
  /\ pc = "createMapping"
  /\ \/ /\ pc' = "threw"
        /\ obs' = [obs EXCEPT !.storeFailed = TRUE]
        /\ UNCHANGED <<loc, eventChannels>>
     \/ /\ eventChannels' = Append(eventChannels, MilestoneDefaultMapping(ctx.id))
        /\ MilestoneRoute(MilestoneDefaultMapping(ctx.id))
        /\ UNCHANGED obs
  /\ UNCHANGED <<repositories, trackedBranches, globalSecret, maxChannels, served, calls,
                 messagesSent, errorLog, systemLog, req, candidates, ctx, handler,
                 responses, responseSent>>

\* config.actionsEnabled['comments'] is truthy
CommentsEnabled(m) ==
  /\ m # NoMapping
  /\ "comments" \in DOMAIN m.config.actionsEnabled
  /\ m.config.actionsEnabled["comments"]

\* getPullRequestRouting(...).channelId for the mapping found (NoMapping when
\* there is none or the lookup failed)
PullRequestChannel(m) ==
  IF m # NoMapping /\ m.channelId # Null THEN m.channelId ELSE DefaultChannel(ctx)

\* review handlers that deliver comments like any other review
ReviewRouteCommentsByDefault(m, commentOnly) ==
  IF PullRequestChannel(m) = "pending"
    THEN Return(Result(200, Null, FALSE))
    ELSE /\ loc' = [loc EXCEPT !.chan = PullRequestChannel(m)]
         /\ pc' = "fetch"

\* the two review handlers after getPullRequestRouting returned mapping m
ReviewRoute(m, commentOnly) ==
  IF (commentOnly /\ ~CommentsEnabled(m)) \/ PullRequestChannel(m) = "pending"
    THEN Return(Result(200, Null, FALSE))
    ELSE /\ loc' = [loc EXCEPT !.chan = PullRequestChannel(m)]
         /\ pc' = "fetch"

\* handlePRReviewEvent up to the channel fetch
PRReviewStart ==
  /\ pc = "handler"
  /\ handler = "handlePRReviewEvent"
  /\ IF req.action # "submitted"
       THEN Return(Result(200, Null, FALSE)) /\ UNCHANGED obs
       ELSE \/ /\ ReviewRoute(NoMapping, req.state = "commented")
               /\ obs' = [obs EXCEPT !.storeFailed = TRUE]
            \/ /\ ReviewRoute(FindFirstMapping(ctx.id, "pull_request"), req.state = "commented")
               /\ UNCHANGED obs
  /\ UNCHANGED <<storeVars, messagesSent, errorLog, systemLog, req, candidates, ctx,
                 handler, responses, responseSent>>

\* handlePRReviewCommentEvent up to the channel fetch
PRReviewCommentStart ==
  /\ pc = "handler"
  /\ handler = "handlePRReviewCommentEvent"
  /\ IF req.action # "created"
       THEN Return(Result(200, Null, FALSE)) /\ UNCHANGED obs
       ELSE \/ /\ ReviewRoute(NoMapping, TRUE)
               /\ obs' = [obs EXCEPT !.storeFailed = TRUE]
            \/ /\ ReviewRoute(FindFirstMapping(ctx.id, "pull_request"), TRUE)
               /\ UNCHANGED obs
  /\ UNCHANGED <<storeVars, messagesSent, errorLog, systemLog, req, candidates, ctx,
                 handler, responses, responseSent>>

----------------------------------------------------------------------------
(* Specification                                                           *)

Next ==
  \/ Receive
  \/ CheckContentType
  \/ TryNotifyContentTypeError
  \/ RejectContentType
  \/ CheckPayload
  \/ LookupRepositories
  \/ CheckSignature
  \/ ValidateSignature
  \/ CheckEvent
  \/ Dispatch
  \/ Unhandled
  \/ OuterCatch
  \/ DefaultChannelStart
  \/ DefaultChannelGuarded
  \/ GuardCheckLimit
  \/ GuardWarnFetch
  \/ GuardWarnSend
  \/ DeliverFetch
  \/ DeliverSend
  \/ DeliverUpdate
  \/ PushStart
  \/ WorkflowRunStart
  \/ FanOutNext
  \/ PushGuarded
  \/ FanOutFetch
  \/ FanOutSend
  \/ FanOutUpdate
  \/ PingStart
  \/ PingGuarded
  \/ PingFetch
  \/ PingSend
  \/ PingSendGuide
  \/ PingUpdate
  \/ MilestoneFindMapping
  \/ MilestoneCreateMapping
  \/ PRReviewStart
  \/ PRReviewCommentStart
  \/ HandlerReturned
  \/ HandlerThrew
  \/ LogHandlerError
  \/ LogHandlerErrorAgain
  \/ Finish

Spec == Init /\ [][Next]_vars

----------------------------------------------------------------------------
(* Properties of the dispatcher                                            *)

\* C1: on every path through the dispatcher at most one HTTP response is
\* emitted for a request; once a response was sent no later step sends a
\* second one.
C1_AtMostOneResponse == Len(responses) <= 1

\* a handler threw: the 500 was sent by sendResponse and the two log writes
\* that follow it sent nothing
C1_Witness ==
  /\ pc = "done"
  /\ handler # Null
  /\ responseSent
  /\ responses = <<500>>

\* C2: a handler is invoked only with a validated context; the context is
\* the first candidate, in candidate order, whose effective secret (its own,
\* else the global one) gives the digest the sha256= signature carries over
\* the raw body; candidates without an effective secret are skipped; and
\* every chat send of a handler and every counter increment of the request
\* goes to the server of that candidate only.
C2_ValidatedContextOnly ==
  LET secret(r) == IF r.webhookSecret # Null THEN r.webhookSecret ELSE globalSecret
      matches(r) ==
        /\ secret(r) # Null
        /\ req.signature.present
        /\ req.signature.prefixed
        /\ req.signature.mac = Hmac(secret(r), RawBody)
      sameUrl(r) ==
        r.url = req.url \/ r.url = req.url \o DotGit \/ r.url \o DotGit = req.url
      cands == SelectSeq(repositories, sameUrl)
  IN pc # "idle" =>
       /\ handler # Null => ctx # NoRepo
       /\ ctx # NoRepo =>
            \E i \in 1..Len(cands) :
              /\ cands[i] = ctx
              /\ matches(ctx)
              /\ \A j \in 1..(i - 1) : ~matches(cands[j])
       /\ ctx # NoRepo =>
            \A i \in 1..Len(obs.sent) : ChannelServer(obs.sent[i].channel) = ctx.serverId
       /\ \A s \in Servers : s # ctx.serverId => messagesSent[s] = obs.startSent[s]

\* the first candidate has no effective secret and is skipped; the second
\* one validated, and a message was delivered and counted on its server
C2_Witness ==
  /\ Len(candidates) = 2
  /\ candidates[1].webhookSecret = Null
  /\ globalSecret = Null
  /\ ctx = candidates[2]
  /\ obs.sent # <<>>
  /\ messagesSent[ctx.serverId] > obs.startSent[ctx.serverId]

\* C3: the checks are applied in the order content type, repository URL,
\* candidate repositories, signature header, signature validation, event
\* header; the first one that fails alone decides the response (400, 400,
\* 404, 401, 401, 400) and no handler is dispatched after it.
C3_ChecksInOrder ==
  LET secret(r) == IF r.webhookSecret # Null THEN r.webhookSecret ELSE globalSecret
      matches(r) ==
        /\ secret(r) # Null
        /\ req.signature.prefixed
        /\ req.signature.mac = Hmac(secret(r), RawBody)
      sameUrl(r) ==
        r.url = req.url \/ r.url = req.url \o DotGit \/ r.url \o DotGit = req.url
      cands == SelectSeq(repositories, sameUrl)
      firstFailure ==
        IF req.contentType # "json" THEN 400
        ELSE IF req.url = NoUrl THEN 400
        ELSE IF cands = <<>> THEN 404
        ELSE IF ~req.signature.present THEN 401
        ELSE IF \A i \in 1..Len(cands) : ~matches(cands[i]) THEN 401
        ELSE IF req.event = Null THEN 400
        ELSE 0
  IN (pc # "idle" /\ firstFailure # 0) =>
       /\ handler = Null
       /\ pc \notin {"dispatch", "unhandled", "handler"}
       /\ obs.attempts = <<>>
       /\ (pc = "done" /\ ~obs.storeFailed) => responses = <<firstFailure>>

\* an invalid signature on a request without event header: 401, not 400
C3_Witness ==
  /\ pc = "done"
  /\ req.contentType = "json"
  /\ candidates # <<>>
  /\ req.signature.present
  /\ ctx = NoRepo
  /\ req.event = Null
  /\ responses = <<401>>

\* C4: every exception after payload validation is answered with 500 and
\* leaves an ErrorLog row with the event type and the action (as far as the
\* store accepts the write), in the dispatcher's catch block as well as in
\* handleEventWithLogging.
C4_ErrorLogged ==
  (pc = "done" /\ responses = <<500>> /\ ~obs.logFailed) =>
    \E i \in (obs.startErr + 1)..Len(errorLog) :
      errorLog[i].eventType = req.event /\ errorLog[i].action = req.action

\* C5: a validated request whose event type has no case in the switch is
\* answered 200, never 400 or 500, and leaves a SystemLog row; when the
\* SystemLog write fails the answer is still 200.
C5_UnhandledAcknowledged ==
  (pc = "done" /\ ctx # NoRepo /\ req.event # Null /\ HandlerFor(req.event) = Null) =>
    /\ responses = <<200>>
    /\ \/ obs.logFailed /\ Len(systemLog) = obs.startSys
       \/ /\ Len(systemLog) = obs.startSys + 1
          /\ systemLog[Len(systemLog)].eventType = req.event
          /\ systemLog[Len(systemLog)].serverId = ctx.serverId

\* a deployment_status event whose SystemLog write failed, answered 200
C5_Witness ==
  /\ pc = "done"
  /\ req.event = "deployment_status"
  /\ obs.logFailed
  /\ Len(systemLog) = obs.startSys
  /\ responses = <<200>>

----------------------------------------------------------------------------
(* Properties of the event handlers                                        *)

\* C6: a validated workflow_job or check_run webhook is dispatched to its
\* event handler: it is not treated as an unhandled event type.
C6_JobAndCheckDispatched ==
  (pc = "done" /\ ctx # NoRepo /\ req.event \in {"workflow_job", "check_run"}) =>
    /\ handler # Null
    /\ Len(systemLog) = obs.startSys

C8_CountsDeliveredMessages ==
  LET delivered == SelectSeq(obs.sent, LAMBDA m : m.kind = "notification")
  IN (pc = "done" /\ ctx # NoRepo /\ ~obs.updFailed) =>
       messagesSent[ctx.serverId] - obs.startSent[ctx.serverId] = Len(delivered)

C11_PingNeverSuppressed ==
  (/\ handler = "handlePingEvent"
   /\ pc \in {"returned", "done"}
   /\ ctx.notificationChannelId \notin {Null, "pending"}) =>
    /\ obs.attempts = <<ctx.notificationChannelId>>
    /\ obs.blocked = <<>>

\* above the limit the warning could not be posted (the guard answered
\* false), and the ping confirmation was delivered all the same
C11_Witness ==
  /\ handler = "handlePingEvent"
  /\ pc = "done"
  /\ CheckChannelLimit(ctx.serverId, Null, Null).isAtLimit
  /\ ~loc.can
  /\ obs.sent = <<Message(ctx.notificationChannelId, "notification"),
                  Message(ctx.notificationChannelId, "notification")>>

----------------------------------------------------------------------------
(* Event routing: src/functions/eventRouting.js                            *)

MaxResolutions == 2

\* an actionsEnabled map: the actions in on are true, those in off false
Actions(on, off) == [a \in on \cup off |-> a \in on]

\* the table without the cases for workflow_run and check_suite
getDefaultActionsWithoutRuns(eventType) ==
  CASE eventType = "issues" ->
         Actions({"opened", "closed", "reopened", "edited", "labeled", "assigned"},
                 {"comments"})
    [] eventType = "pull_request" ->
         Actions({"opened", "closed", "reopened"}, {"comments"})
    [] eventType = "release" -> Actions({"published"}, {})
    [] eventType = "star" -> Actions({"created", "deleted"}, {})
    [] eventType = "fork" -> Actions({"created"}, {})
    [] eventType = "create" -> Actions({"created"}, {})
    [] eventType = "delete" -> Actions({"deleted"}, {})
    [] eventType = "milestone" -> Actions({"created", "opened", "closed"}, {})
    [] eventType = "ping" -> Actions({"ping"}, {})
    [] eventType = "workflow_job" ->
         Actions({"completed"}, {"queued", "in_progress", "waiting"})
    [] eventType = "check_run" ->
         Actions({"completed"}, {"created", "requested", "rerequested"})
    [] OTHER -> NoActions

\* getDefaultActionsForEvent(eventType)
getDefaultActionsForEvent(eventType) ==
  CASE eventType = "issues" ->
         Actions({"opened", "closed", "reopened", "edited", "labeled", "assigned"},
                 {"comments"})
    [] eventType = "pull_request" ->
         Actions({"opened", "closed", "reopened"}, {"comments"})
    [] eventType = "release" -> Actions({"published"}, {})
    [] eventType = "star" -> Actions({"created", "deleted"}, {})
    [] eventType = "fork" -> Actions({"created"}, {})
    [] eventType = "create" -> Actions({"created"}, {})
    [] eventType = "delete" -> Actions({"deleted"}, {})
    [] eventType = "milestone" -> Actions({"created", "opened", "closed"}, {})
    [] eventType = "ping" -> Actions({"ping"}, {})
    [] eventType = "workflow_run" -> Actions({"completed"}, {"requested"})
    [] eventType = "workflow_job" ->
         Actions({"completed"}, {"queued", "in_progress", "waiting"})
    [] eventType = "check_run" ->
         Actions({"completed"}, {"created", "requested", "rerequested"})
    [] eventType = "check_suite" ->
         Actions({"completed"}, {"requested", "rerequested"})
    [] OTHER -> NoActions

\* { ...existingActions, ...defaultActions }: the defaults win
MergeActionsDefaultsWin(defaultActions, existingActions) ==
  [a \in DOMAIN defaultActions \cup DOMAIN existingActions |->
     IF a \in DOMAIN defaultActions THEN defaultActions[a] ELSE existingActions[a]]

\* { ...defaultActions, ...existingActions }
MergeActions(defaultActions, existingActions) ==
  [a \in DOMAIN defaultActions \cup DOMAIN existingActions |->
     IF a \in DOMAIN existingActions THEN existingActions[a] ELSE defaultActions[a]]

\* a resolver that stores the fallback channel in place of the sentinel and
\* marks it as chosen
DefaultRoutingMappingPinned(repositoryId, eventType) ==
  Mapping(repositoryId, eventType, "c2", getDefaultActionsForEvent(eventType), TRUE)

\* the row getEventRouting creates when findFirst found none
DefaultRoutingMapping(repositoryId, eventType) ==
  Mapping(repositoryId, eventType, "default", getDefaultActionsForEvent(eventType), FALSE)

\* fallbackChannelId || 'pending'
OrPending(channelId) == IF channelId # Null THEN channelId ELSE "pending"

\* effectiveChannelId of getEventRouting
EffectiveChannelId(mapping, fallbackChannelId) ==
  IF \/ mapping.channelId = "default"
     \/ (~mapping.config.explicitChannel /\ mapping.channelId = fallbackChannelId)
    THEN OrPending(fallbackChannelId)
    ELSE IF mapping.channelId # Null THEN mapping.channelId
         ELSE OrPending(fallbackChannelId)

\* what getEventRouting returns from its try block for the mapping it holds
RoutingOf(mapping, eventType, fallbackChannelId) ==
  [channelId |-> EffectiveChannelId(mapping, fallbackChannelId),
   config |-> [mapping.config EXCEPT
                 !.actionsEnabled =
                    MergeActions(getDefaultActionsForEvent(eventType), @)]]

\* a catch block that forgets the fallback channel
RoutingFailurePending(fallbackChannelId) ==
  [channelId |-> "pending", config |-> [null |-> TRUE]]

\* what getEventRouting returns from its catch block (config: null)
RoutingFailure(fallbackChannelId) ==
  [channelId |-> OrPending(fallbackChannelId), config |-> [null |-> TRUE]]

\* the record kept of one call of getEventRouting
RoutingCall(repositoryId, eventType, fallbackChannelId, found, threw, result) ==
  [fn |-> "getEventRouting", repositoryId |-> repositoryId, eventType |-> eventType,
   fallbackChannelId |-> fallbackChannelId, rowsBefore |-> Len(eventChannels),
   found |-> found, threw |-> threw, result |-> result]

\* one call getEventRouting(prisma, repositoryId, eventType, fallbackChannelId):
\* findFirst, create when nothing was found, merge and channel resolution;
\* either store call may throw, which the catch block turns into the fallback
getEventRouting(repositoryId, eventType, fallbackChannelId) ==
  LET found == FindFirstMapping(repositoryId, eventType)
      fresh == DefaultRoutingMapping(repositoryId, eventType)
  IN \/ /\ calls' = Append(calls, RoutingCall(repositoryId, eventType, fallbackChannelId,
                                              FALSE, TRUE, RoutingFailure(fallbackChannelId)))
        /\ UNCHANGED eventChannels
     \/ /\ found # NoMapping
        /\ calls' = Append(calls, RoutingCall(repositoryId, eventType, fallbackChannelId,
                                              TRUE, FALSE,
                                              RoutingOf(found, eventType, fallbackChannelId)))
        /\ UNCHANGED eventChannels
     \/ /\ found = NoMapping
        /\ eventChannels' = Append(eventChannels, fresh)
        /\ calls' = Append(calls, RoutingCall(repositoryId, eventType, fallbackChannelId,
                                              FALSE, FALSE,
                                              RoutingOf(fresh, eventType, fallbackChannelId)))

\* the event types and fallback channels the resolver is called with
RoutedEventTypes == {"issues", "pull_request", "workflow_job", "check_run", "deployment"}

\* a mapping as /set-event-channel creates it: a channel and no config
IssuesChannelMapping == Mapping(1, "issues", "c2", NoActions, FALSE)

ResolveRouting ==
  /\ Len(calls) < MaxResolutions
  /\ \E repositoryId \in {1, 2}, eventType \in RoutedEventTypes,
        fallbackChannelId \in {"c1", Null} :
       getEventRouting(repositoryId, eventType, fallbackChannelId)
  /\ UNCHANGED <<repositories, trackedBranches, globalSecret, maxChannels, served,
                 messagesSent, errorLog, systemLog, pc, req, candidates, ctx, handler,
                 responses, responseSent, loc, obs>>

\* no request in progress, nothing sent or logged yet
IdleProcess ==
  /\ messagesSent = [s \in Servers |-> 0]
  /\ errorLog = <<>>
  /\ systemLog = <<>>
  /\ pc = "idle"
  /\ req = NoRequest
  /\ candidates = <<>>
  /\ ctx = NoRepo
  /\ handler = Null
  /\ responses = <<>>
  /\ responseSent = FALSE
  /\ loc = InitLoc
  /\ obs = InitObs
  /\ served = 0

\* the store and the idle process the function specifications start from
IdleInit ==
  /\ IdleProcess
  /\ repositories = InitRepositories(<<"k1", "k2", "kG">>, "c1")
  /\ globalSecret = "kG"
  /\ trackedBranches = InitTracked
  /\ maxChannels = Unlimited

RoutingInit ==
  /\ IdleInit
  /\ eventChannels \in {<<>>, <<PullRequestCommentsMapping>>, <<IssuesChannelMapping>>}
  /\ calls = <<>>

SpecRouting == RoutingInit /\ [][ResolveRouting]_vars

\* the rows stored for a (repository, event type) pair
RowsOf(repositoryId, eventType) ==
  {k \in 1..Len(eventChannels) :
     /\ eventChannels[k].repositoryId = repositoryId
     /\ eventChannels[k].eventType = eventType}

SameRoute(a, b) ==
  /\ a.repositoryId = b.repositoryId
  /\ a.eventType = b.eventType
  /\ a.fallbackChannelId = b.fallbackChannelId

\* C12: a resolution that finds no mapping for its (repository, event type)
\* pair creates exactly one row, with channel 'default', explicitChannel false
\* and the defaults of the event type as actionsEnabled; the next resolution
\* of the same pair creates no row and returns the same effective channel and
\* the same actionsEnabled map.
C12_ResolveRoundTrip ==
  \A i \in 1..Len(calls) :
    (calls[i].fn = "getEventRouting" /\ ~calls[i].found /\ ~calls[i].threw) =>
      /\ Cardinality(RowsOf(calls[i].repositoryId, calls[i].eventType)) = 1
      /\ eventChannels[calls[i].rowsBefore + 1] =
           Mapping(calls[i].repositoryId, calls[i].eventType, "default",
                   getDefaultActionsForEvent(calls[i].eventType), FALSE)
      /\ \A j \in (i + 1)..Len(calls) :
           (SameRoute(calls[i], calls[j]) /\ ~calls[j].threw) =>
             /\ calls[j].found
             /\ calls[j].result.channelId = calls[i].result.channelId
             /\ calls[j].result.config.actionsEnabled =
                  calls[i].result.config.actionsEnabled

C12_Witness ==
  /\ Len(calls) = 2
  /\ SameRoute(calls[1], calls[2])
  /\ calls[1].eventType = "workflow_job"
  /\ ~calls[1].found /\ ~calls[1].threw
  /\ calls[2].found
  /\ Len(eventChannels) = calls[1].rowsBefore + 1

----------------------------------------------------------------------------
(* Properties of the comment filters and of the per-event routes           *)

\* the comments flag of an issues or pull_request mapping of the repository
\* is switched on
CommentsSwitchedOn(repositoryId) ==
  \E k \in 1..Len(eventChannels) :
    /\ eventChannels[k].repositoryId = repositoryId
    /\ eventChannels[k].eventType \in {"issues", "pull_request"}
    /\ CommentsEnabled(eventChannels[k])

\* C13: an issue_comment webhook is delivered only when the comments flag of
\* its routed event is true; without that flag nothing is sent for it and
\* the request is answered 200.
C13_IssueCommentsOptIn ==
  (handler = "handleIssueCommentEvent" /\ ~CommentsSwitchedOn(ctx.id)) =>
    /\ \A k \in 1..Len(obs.sent) : obs.sent[k].kind # "notification"
    /\ pc = "done" => responses = <<200>>

\* the request in progress is a review or review comment that needs the
\* comments flag of the pull_request mapping
CommentOnlyReview ==
  \/ handler = "handlePRReviewEvent" /\ req.action = "submitted" /\ req.state = "commented"
  \/ handler = "handlePRReviewCommentEvent" /\ req.action = "created"

\* the request in progress is a review event the handlers only acknowledge
IgnoredReviewAction ==
  \/ handler = "handlePRReviewEvent" /\ req.action # "submitted"
  \/ handler = "handlePRReviewCommentEvent" /\ req.action # "created"

\* C14: a comment-only review and a review comment are delivered only when
\* the pull_request mapping of the repository has actionsEnabled.comments
\* true; without it, and for review actions other than submitted and comment
\* actions other than created, the handler attempts no delivery and returns
\* 200 with channelId null.
C14_ReviewCommentsOptIn ==
  (\/ IgnoredReviewAction
   \/ CommentOnlyReview /\ ~CommentsEnabled(FindFirstMapping(ctx.id, "pull_request"))) =>
    /\ obs.attempts = <<>>
    /\ obs.sent = <<>>
    /\ pc # "threw"
    /\ pc = "returned" => loc.result = Result(200, Null, FALSE)
    /\ pc = "done" => responses = <<200>>

C14_Witness ==
  /\ handler = "handlePRReviewEvent"
  /\ req.action = "submitted" /\ req.state = "commented"
  /\ ctx.notificationChannelId = "c1"
  /\ eventChannels = <<>>
  /\ pc = "done"
  /\ responses = <<200>>
  /\ obs.sent = <<>>

----------------------------------------------------------------------------
(* The commands /set-event-channel, /remove-event-channel and /edit-event  *)

MaxCommands == 2

\* the event types the commands and the webhooks below are drawn from
RoutedEvents == {"issues", "pull_request", "release", "milestone"}

\* EVENT_ACTION_PRESETS[eventType] || []
EventActionPresets(eventType) ==
  CASE eventType = "issues" ->
         {"opened", "closed", "reopened", "edited", "labeled", "assigned", "comments"}
    [] eventType = "pull_request" -> {"opened", "closed", "reopened", "comments"}
    [] eventType = "release" -> {"published"}
    [] eventType = "star" -> {"created", "deleted"}
    [] eventType = "fork" -> {"created"}
    [] eventType = "create" -> {"created"}
    [] eventType = "delete" -> {"deleted"}
    [] eventType = "milestone" -> {"created", "closed", "opened"}
    [] eventType = "ping" -> {"ping"}
    [] OTHER -> {}

\* prisma.repository.findFirst({ where: { id, server: { guildId } } }): the
\* position of the repository, 0 when the guild has no such repository
RECURSIVE RepositoryOfGuildFrom(_, _, _)
RepositoryOfGuildFrom(i, repositoryId, guild) ==
  IF i > Len(repositories) THEN 0
  ELSE IF repositories[i].id = repositoryId /\ repositories[i].serverId = guild THEN i
  ELSE RepositoryOfGuildFrom(i + 1, repositoryId, guild)

RepositoryOfGuild(repositoryId, guild) == RepositoryOfGuildFrom(1, repositoryId, guild)

\* the position of the row findFirst returns, 0 when there is none
RECURSIVE FindFirstIndexFrom(_, _, _, _)
FindFirstIndexFrom(rows, i, repositoryId, eventType) ==
  IF i > Len(rows) THEN 0
  ELSE IF rows[i].repositoryId = repositoryId /\ rows[i].eventType = eventType THEN i
  ELSE FindFirstIndexFrom(rows, i + 1, repositoryId, eventType)

FindFirstIndex(repositoryId, eventType) ==
  FindFirstIndexFrom(eventChannels, 1, repositoryId, eventType)

\* the record kept of one command
Command(fn, repositoryId, eventType, channelId, clicks, done) ==
  [fn |-> fn, repositoryId |-> repositoryId, eventType |-> eventType,
   channelId |-> channelId, clicks |-> clicks, done |-> done]

\* what a command leaves alone
CommandFrame ==
  UNCHANGED <<repositories, trackedBranches, globalSecret, maxChannels, served,
              messagesSent, errorLog, systemLog, pc, req, candidates, ctx, handler,
              responses, responseSent, loc, obs>>

\* /set-event-channel execute: update the channel of the mapping found, or
\* create a mapping holding the channel only
SetEventChannelWrite(repositoryId, eventType, channelId) ==
  LET k == FindFirstIndex(repositoryId, eventType)
  IN IF k # 0
       THEN [eventChannels EXCEPT ![k].channelId = channelId]
       ELSE Append(eventChannels, Mapping(repositoryId, eventType, channelId, NoActions, FALSE))

SetEventChannel ==
  /\ pc = "idle"
  /\ Len(calls) < MaxCommands
  /\ \E repositoryId \in {1, 2}, eventType \in RoutedEvents, channelId \in {"c1", "c2"} :
       LET found == RepositoryOfGuild(repositoryId, ChannelServer(channelId)) # 0
       IN \/ /\ found
             /\ eventChannels' = SetEventChannelWrite(repositoryId, eventType, channelId)
             /\ calls' = Append(calls, Command("set-event-channel", repositoryId, eventType,
                                               channelId, <<>>, TRUE))
          \/ /\ eventChannels' = eventChannels
             /\ calls' = Append(calls, Command("set-event-channel", repositoryId, eventType,
                                               channelId, <<>>, FALSE))
  /\ CommandFrame

\* the table without its k-th row
DeleteRow(rows, k) == SubSeq(rows, 1, k - 1) \o SubSeq(rows, k + 1, Len(rows))

\* /remove-event-channel execute
RemoveEventChannel ==
  /\ pc = "idle"
  /\ Len(calls) < MaxCommands
  /\ \E eventType \in RoutedEvents :
       LET k == FindFirstIndex(1, eventType)
       IN \/ /\ k # 0
             /\ eventChannels' = DeleteRow(eventChannels, k)
             /\ calls' = Append(calls, Command("remove-event-channel", 1, eventType, Null,
                                               <<>>, TRUE))
          \/ /\ eventChannels' = eventChannels
             /\ calls' = Append(calls, Command("remove-event-channel", 1, eventType, Null,
                                               <<>>, FALSE))
  /\ CommandFrame

\* actionsEnabled[action] = !Boolean(actionsEnabled[action])
Toggle(actionsEnabled, action) ==
  [a \in DOMAIN actionsEnabled \cup {action} |->
     IF a = action THEN ~(a \in DOMAIN actionsEnabled /\ actionsEnabled[a])
     ELSE actionsEnabled[a]]

\* the actionsEnabled map an /edit-event session starts from
SessionActions(mapping, eventType) ==
  IF mapping # NoMapping /\ mapping.config.actionsEnabled # NoActions
    THEN mapping.config.actionsEnabled
    ELSE [a \in EventActionPresets(eventType) |-> a # "comments"]

\* the collector of one /edit-event session handling the clicks in turn:
\* found is the mapping the session captured when it opened (0: none)
RECURSIVE ApplyClicks(_, _, _, _, _, _, _)
ApplyClicks(rows, found, actionsEnabled, clicks, repositoryId, eventType, channelId) ==
  IF clicks = <<>> THEN rows
  ELSE LET toggled == Toggle(actionsEnabled, Head(clicks))
           written ==
             IF found # 0
               THEN [rows EXCEPT ![found].config =
                                   [actionsEnabled |-> toggled, explicitChannel |-> FALSE]]
               ELSE Append(rows, Mapping(repositoryId, eventType, channelId, toggled, FALSE))
       IN ApplyClicks(written, found, toggled, Tail(clicks), repositoryId, eventType, channelId)

\* the buttons pressed in one session
ClickedActions(eventType) == EventActionPresets(eventType) \cap {"opened", "closed", "published"}

Clicks(eventType) ==
  {<<a>> : a \in ClickedActions(eventType)}
    \cup {<<a, b>> : a \in ClickedActions(eventType), b \in ClickedActions(eventType)}

\* /edit-event execute with the clicks of its session
EditEvent ==
  /\ pc = "idle"
  /\ Len(calls) < MaxCommands
  /\ \E eventType \in RoutedEvents :
       \E clicks \in Clicks(eventType) :
         /\ eventChannels' =
              ApplyClicks(eventChannels, FindFirstIndex(1, eventType),
                          SessionActions(FindFirstMapping(1, eventType), eventType),
                          clicks, 1, eventType, OrPending(repositories[1].notificationChannelId))
         /\ calls' = Append(calls, Command("edit-event", 1, eventType, Null, clicks, TRUE))
  /\ CommandFrame

\* webhooks of the routed event types that pass every check of the dispatcher
RoutedRequests ==
  {Request("json", UrlA, Sig(TRUE, "k1", RawBody), Payload(e, a, <<>>, Null)) :
     e \in {"issues", "pull_request"}, a \in {"opened", "closed"}}
  \cup {Request("json", UrlA, Sig(TRUE, "k1", RawBody), Payload("release", "published", <<>>, Null))}
  \cup {Request("json", UrlA, Sig(TRUE, "k1", RawBody), Payload("milestone", a, <<>>, Null)) :
          a \in {"created", "closed"}}

ReceiveRouted == ReceiveFrom(RoutedRequests)

RoutesInit ==
  /\ IdleInit
  /\ eventChannels = <<>>
  /\ calls = <<>>

RoutesNext ==
  \/ SetEventChannel
  \/ RemoveEventChannel
  \/ EditEvent
  \/ ReceiveRouted
  \/ CheckContentType
  \/ CheckPayload
  \/ LookupRepositories
  \/ CheckSignature
  \/ ValidateSignature
  \/ CheckEvent
  \/ Dispatch
  \/ OuterCatch
  \/ DefaultChannelStart
  \/ DefaultChannelGuarded
  \/ GuardCheckLimit
  \/ DeliverFetch
  \/ DeliverSend
  \/ DeliverUpdate
  \/ MilestoneFindMapping
  \/ MilestoneCreateMapping
  \/ HandlerReturned
  \/ HandlerThrew
  \/ LogHandlerError
  \/ LogHandlerErrorAgain
  \/ Finish

SpecRoutes == RoutesInit /\ [][RoutesNext]_vars

\* the commands of a kind that succeeded for a (repository, event type) pair
Succeeded(fn, repositoryId, eventType) ==
  {i \in 1..Len(calls) :
     /\ calls[i].fn = fn /\ calls[i].done
     /\ calls[i].repositoryId = repositoryId /\ calls[i].eventType = eventType}

\* the /set-event-channel commands whose route was not removed or replaced
RoutesInForce(repositoryId, eventType) ==
  {i \in Succeeded("set-event-channel", repositoryId, eventType) :
     \A j \in Succeeded("set-event-channel", repositoryId, eventType)
              \cup Succeeded("remove-event-channel", repositoryId, eventType) : j <= i}

\* C15: once /set-event-channel succeeded for a repository, an event type
\* and a channel, and the route was not removed since, every notification of
\* a validated webhook of that type for that repository goes to that channel.
C15_RoutedToEventChannel ==
  (handler # Null /\ req.event \in RoutedEvents) =>
    \A i \in RoutesInForce(ctx.id, req.event) :
      \A k \in 1..Len(obs.sent) :
        obs.sent[k].kind = "notification" => obs.sent[k].channel = calls[i].channelId

\* the action of the webhook in progress is stored as switched off in the
\* mapping of its event type, after an /edit-event session for that mapping
SwitchedOff ==
  /\ handler # Null
  /\ req.event \in RoutedEvents
  /\ Succeeded("edit-event", ctx.id, req.event) # {}
  /\ LET actionsEnabled == FindFirstMapping(ctx.id, req.event).config.actionsEnabled
     IN req.action \in DOMAIN actionsEnabled /\ ~actionsEnabled[req.action]

\* C16: a validated webhook whose action was switched off with /edit-event
\* for its event type produces no notification.
C16_SwitchedOffNotDelivered ==
  SwitchedOff => \A k \in 1..Len(obs.sent) : obs.sent[k].kind # "notification"

----------------------------------------------------------------------------
(* Branch patterns: matchesBranchPattern, findMatchingBranches and         *)
(* isValidBranchPattern called on their own                                *)

Bang == <<"!">>

\* the characters of /^[a-zA-Z0-9\-_/.]+$/
NameChars ==
  {"a", "b", "c", "d", "e", "f", "g", "h", "i", "j", "k", "l", "m",
   "n", "o", "p", "q", "r", "s", "t", "u", "v", "w", "x", "y", "z",
   "A", "B", "C", "D", "E", "F", "G", "H", "I", "J", "K", "L", "M",
   "N", "O", "P", "Q", "R", "S", "T", "U", "V", "W", "X", "Y", "Z",
   "0", "1", "2", "3", "4", "5", "6", "7", "8", "9", "-", "_", "/", "."}

\* /^[a-zA-Z0-9\-_/.]+$/.test(s)
MatchesNameChars(s) == Len(s) > 0 /\ \A i \in 1..Len(s) : s[i] \in NameChars

\* s.includes(c) for a single character c
Includes(s, c) == \E i \in 1..Len(s) : s[i] = c

\* isValidBranchPattern(pattern)
isValidBranchPattern(pattern) ==
  IF pattern = Star THEN TRUE
  ELSE IF ~Includes(pattern, "*") THEN MatchesNameChars(pattern)
  ELSE IF EndsWith(pattern, SlashStar)
    THEN LET prefix == SubSeq(pattern, 1, Len(pattern) - 2)
         IN Len(prefix) > 0 /\ ~Includes(prefix, "*") /\ MatchesNameChars(prefix)
  ELSE FALSE

\* branch names and patterns the functions are called with
BrMainUpper == <<"M", "a", "i", "n">>
BrRelBare == <<"r", "e", "l">>
BrFix == <<"f", "i", "x", "/", "v", "1">>
BrFeature == <<"f", "/", "n">>
PatFeature == <<"f">> \o SlashStar
PatInner == <<"f", "/", "*", "/", "d">>
PatAround == <<"*", "m", "*">>
PatSpace == <<"m", " ", "n">>
PatDotted == <<"v", "1", ".", "0", "-", "r", "_", "c">>

MatcherBranches == {BrMain, BrMainUpper, BrDev, BrRel, BrRelBare, BrFix, BrFeature}

MatcherPatterns ==
  {Star, BrMain, BrDev, PatRel, PatFeature, PatInner, PatAround, PatSpace, PatDotted,
   SlashStar, Bang \o BrMain, Bang \o PatRel, Bang \o Star, Bang \o PatInner}

\* lists of tracked branches findMatchingBranches is called with
TrackedLists ==
  {<<>>,
   <<Tracked(1, BrMain, "c1")>>,
   <<Tracked(1, PatRel, "c2"), Tracked(1, Star, "c1"), Tracked(1, PatRel, "c1")>>,
   <<Tracked(1, Star, "c1"), Tracked(1, BrMain, "c1"), Tracked(1, PatFeature, "c2"),
     Tracked(1, Bang \o PatRel, "c2")>>}

\* a call of one of the three functions, before and after it returned
MatcherCall(fn, branchName, pattern, tracked, done, result, matches) ==
  [fn |-> fn, branchName |-> branchName, pattern |-> pattern, tracked |-> tracked,
   done |-> done, result |-> result, matches |-> matches]

MatcherCalls ==
  {MatcherCall("matchesBranchPattern", b, p, <<>>, FALSE, FALSE, <<>>) :
     b \in MatcherBranches, p \in MatcherPatterns}
  \cup {MatcherCall("isValidBranchPattern", <<>>, p, <<>>, FALSE, FALSE, <<>>) :
          p \in MatcherPatterns}
  \cup {MatcherCall("findMatchingBranches", b, <<>>, t, FALSE, FALSE, <<>>) :
          b \in MatcherBranches, t \in TrackedLists}

MatcherInit ==
  /\ IdleInit
  /\ eventChannels = <<>>
  /\ \E c \in MatcherCalls : calls = <<c>>

MatcherFrame ==
  UNCHANGED <<repositories, trackedBranches, eventChannels, globalSecret, maxChannels,
              served, messagesSent, errorLog, systemLog, pc, req, candidates, ctx,
              handler, responses, responseSent, loc, obs>>

\* the pending call of the function fn returns: a boolean in result, a list
\* of tracked branches in matches
Returns(fn, result, matches) ==
  /\ calls[1].fn = fn
  /\ ~calls[1].done
  /\ calls' = <<[calls[1] EXCEPT !.done = TRUE, !.result = result, !.matches = matches]>>
  /\ MatcherFrame

MatchesBranchPatternCall ==
  Returns("matchesBranchPattern",
          matchesBranchPattern(calls[1].branchName, calls[1].pattern), <<>>)

IsValidBranchPatternCall ==
  Returns("isValidBranchPattern", isValidBranchPattern(calls[1].pattern), <<>>)

FindMatchingBranchesCall ==
  Returns("findMatchingBranches", FALSE,
          findMatchingBranches(calls[1].tracked, calls[1].branchName))

MatcherNext ==
  \/ MatchesBranchPatternCall
  \/ IsValidBranchPatternCall
  \/ FindMatchingBranchesCall

SpecMatcher == MatcherInit /\ [][MatcherNext]_vars

\* the forms of a pattern named by the documentation of the matcher: a plain
\* name, a prefix followed by /*, and either of them after '!'
PlainName(p) == ~Includes(p, "*") /\ MatchesNameChars(p)
PrefixForm(p) ==
  /\ EndsWith(p, SlashStar)
  /\ Len(p) > 2
  /\ PlainName(SubSeq(p, 1, Len(p) - 2))
NegatedForm(p) ==
  /\ StartsWith(p, Bang)
  /\ PlainName(Tail(p)) \/ PrefixForm(Tail(p))

\* the call the function specification is looking at has returned
Returned(fn) == calls # <<>> /\ calls[1].fn = fn /\ calls[1].done

\* C17: every branch matches '*' and itself, a pattern without wildcard
\* matches on equality only, and a branch matches '!' followed by a plain
\* name or a prefix pattern exactly when it does not match that inner pattern.
C17_MatcherLaws ==
  Returned("matchesBranchPattern") =>
    LET b == calls[1].branchName
        p == calls[1].pattern
        r == calls[1].result
    IN /\ p = Star => r
       /\ p = b => r
       /\ (~Includes(p, "*") /\ ~StartsWith(p, Bang)) => (r <=> p = b)
       /\ NegatedForm(p) => (r <=> ~matchesBranchPattern(b, Tail(p)))

\* C18: a pattern is valid exactly when it is '*', a plain name, a prefix
\* followed by /*, or '!' followed by a plain name or by a prefix and /*.
C18_ValidPatternForms ==
  Returned("isValidBranchPattern") =>
    LET p == calls[1].pattern
    IN calls[1].result <=> (p = Star \/ PlainName(p) \/ PrefixForm(p) \/ NegatedForm(p))

\* the branchName fields of a list of tracked branches
RECURSIVE PatternsOf(_)
PatternsOf(rows) ==
  IF rows = <<>> THEN <<>> ELSE <<Head(rows).branchName>> \o PatternsOf(Tail(rows))

\* C19: findMatchingBranches returns the entries whose pattern matches the
\* branch, in their order; for the patterns '*', 'main', 'f/*', '!rel/*' and
\* the branch 'f/n' these are the entries '*', 'f/*' and '!rel/*'.
C19_FindMatchingFilters ==
  Returned("findMatchingBranches") =>
    /\ calls[1].matches =
         SelectSeq(calls[1].tracked,
                   LAMBDA tb : matchesBranchPattern(calls[1].branchName, tb.branchName))
    /\ (/\ PatternsOf(calls[1].tracked) = <<Star, BrMain, PatFeature, Bang \o PatRel>>
        /\ calls[1].branchName = BrFeature) =>
         PatternsOf(calls[1].matches) = <<Star, PatFeature, Bang \o PatRel>>

----------------------------------------------------------------------------
(* getDefaultActionsForEvent called on its own                             *)

MaxLookups == 2

\* the event types with a case in the switch, and some without
KnownEventTypes ==
  {"issues", "pull_request", "release", "star", "fork", "create", "delete", "milestone",
   "ping", "workflow_run", "workflow_job", "check_run", "check_suite"}
LookupEventTypes == KnownEventTypes \cup {"push", "issue_comment", "deployment", "unknown_event"}

\* a call of getDefaultActionsForEvent, before and after it returned
Lookup(eventType, done, result) ==
  [fn |-> "getDefaultActionsForEvent", eventType |-> eventType, done |-> done,
   result |-> result]

DefaultsInit ==
  /\ IdleInit
  /\ eventChannels = <<>>
  /\ \E types \in [1..MaxLookups -> LookupEventTypes] :
       calls = [i \in 1..MaxLookups |-> Lookup(types[i], FALSE, NoActions)]

\* the next pending call returns
DefaultActionsCall ==
  /\ \E i \in 1..Len(calls) :
       /\ ~calls[i].done
       /\ \A j \in 1..(i - 1) : calls[j].done
       /\ calls' = [calls EXCEPT ![i] = Lookup(calls[i].eventType, TRUE,
                                               getDefaultActionsForEvent(calls[i].eventType))]
  /\ MatcherFrame

SpecDefaults == DefaultsInit /\ [][DefaultActionsCall]_vars

\* the documented default map of an event type
DocumentedDefaults(eventType) ==
  CASE eventType = "issues" ->
         [opened |-> TRUE, closed |-> TRUE, reopened |-> TRUE, edited |-> TRUE,
          labeled |-> TRUE, assigned |-> TRUE, comments |-> FALSE]
    [] eventType = "pull_request" ->
         [opened |-> TRUE, closed |-> TRUE, reopened |-> TRUE, comments |-> FALSE]
    [] eventType = "release" -> [published |-> TRUE]
    [] eventType = "star" -> [created |-> TRUE, deleted |-> TRUE]
    [] eventType = "fork" -> [created |-> TRUE]
    [] eventType = "create" -> [created |-> TRUE]
    [] eventType = "delete" -> [deleted |-> TRUE]
    [] eventType = "milestone" -> [created |-> TRUE, opened |-> TRUE, closed |-> TRUE]
    [] eventType = "ping" -> [ping |-> TRUE]
    [] eventType = "workflow_run" -> [completed |-> TRUE, requested |-> FALSE]
    [] eventType = "workflow_job" ->
         [completed |-> TRUE, queued |-> FALSE, in_progress |-> FALSE, waiting |-> FALSE]
    [] eventType = "check_run" ->
         [completed |-> TRUE, created |-> FALSE, requested |-> FALSE, rerequested |-> FALSE]
    [] eventType = "check_suite" ->
         [completed |-> TRUE, requested |-> FALSE, rerequested |-> FALSE]
    [] OTHER -> <<>>

\* C20: getDefaultActionsForEvent returns the documented default map for
\* each known event type and the empty map for any other; no default map
\* enables 'comments'.
C20_DefaultActionsTable ==
  \A i \in 1..Len(calls) :
    (calls[i].fn = "getDefaultActionsForEvent" /\ calls[i].done) =>
      /\ DOMAIN calls[i].result = DOMAIN DocumentedDefaults(calls[i].eventType)
      /\ \A a \in DOMAIN calls[i].result :
           calls[i].result[a] = DocumentedDefaults(calls[i].eventType)[a]
      /\ calls[i].eventType \notin KnownEventTypes => DOMAIN calls[i].result = {}
      /\ "comments" \in DOMAIN calls[i].result => ~calls[i].result["comments"]

C20_Witness ==
  /\ Len(calls) = MaxLookups
  /\ calls[1].fn = "getDefaultActionsForEvent"
  /\ calls[1].done /\ calls[1].eventType = "check_suite"
  /\ calls[1].result["completed"] /\ ~calls[1].result["rerequested"]
  /\ calls[2].done /\ calls[2].eventType = "unknown_event"
  /\ DOMAIN calls[2].result = {}

----------------------------------------------------------------------------
(* checkChannelLimit called on its own (src/functions/limitChecker)        *)

MaxTracked == 3

\* the tables of at most n TrackedBranch rows of the two repositories
RECURSIVE TrackedTables(_)
TrackedTables(n) ==
  IF n = 0 THEN {<<>>}
  ELSE LET shorter == TrackedTables(n - 1)
       IN shorter \cup
          {Append(t, Tracked(r, Star, ch)) :
             t \in {x \in shorter : Len(x) = n - 1},
             r \in {1, 2}, ch \in Channels \cup {Null}}

\* a call of checkChannelLimit, before and after it returned
LimitCall(serverId, excludeChannelId, includeNewChannelId, done, result) ==
  [fn |-> "checkChannelLimit", serverId |-> serverId,
   excludeChannelId |-> excludeChannelId, includeNewChannelId |-> includeNewChannelId,
   done |-> done, result |-> result]

LimitInit ==
  /\ IdleProcess
  /\ repositories = InitRepositories(<<"k1", "k2", "kG">>, "c1")
  /\ globalSecret = "kG"
  /\ eventChannels = <<>>
  /\ trackedBranches \in TrackedTables(MaxTracked)
  /\ maxChannels \in {Unlimited, 0, 1, 2}
  /\ \E serverId \in Servers, excludeChannelId \in {Null, "c1"},
        includeNewChannelId \in {Null, "c1", "c3"} :
       calls = <<LimitCall(serverId, excludeChannelId, includeNewChannelId, FALSE,
                           [isAtLimit |-> FALSE, currentCount |-> 0, potentialCount |-> 0,
                            remaining |-> 0])>>

\* the pending call returns
CheckChannelLimitCall ==
  /\ ~calls[1].done
  /\ calls' = <<[calls[1] EXCEPT
                   !.done = TRUE,
                   !.result = CheckChannelLimit(calls[1].serverId, calls[1].excludeChannelId,
                                                calls[1].includeNewChannelId)]>>
  /\ MatcherFrame

SpecLimit == LimitInit /\ [][CheckChannelLimitCall]_vars

\* the channels some TrackedBranch row of a repository of the server names
ExplicitlyUsed(serverId) ==
  {c \in Channels :
     \E i \in 1..Len(trackedBranches), j \in 1..Len(repositories) :
       /\ repositories[j].serverId = serverId
       /\ trackedBranches[i].repositoryId = repositories[j].id
       /\ trackedBranches[i].channelId = c}

\* C21: checkChannelLimit counts the distinct channels named by TrackedBranch
\* rows of the server's repositories except excludeChannelId; potentialCount
\* adds one for an includeNewChannelId not yet counted; isAtLimit holds
\* exactly when potentialCount exceeds the maximum; with an unlimited
\* maximum the answer is never at-limit, with infinite remaining.
C21_ChannelLimitCount ==
  (calls # <<>> /\ calls[1].fn = "checkChannelLimit" /\ calls[1].done) =>
    LET c == calls[1]
        counted == ExplicitlyUsed(c.serverId) \ {c.excludeChannelId}
        extra == IF c.includeNewChannelId # Null /\ c.includeNewChannelId \notin counted
                   THEN 1 ELSE 0
    IN IF maxChannels = Unlimited
         THEN ~c.result.isAtLimit /\ c.result.remaining = Unlimited
         ELSE /\ c.result.currentCount = Cardinality(counted)
              /\ c.result.potentialCount = Cardinality(counted) + extra
              /\ c.result.isAtLimit <=> (c.result.potentialCount > maxChannels)

C21_Witness ==
  /\ calls # <<>> /\ calls[1].fn = "checkChannelLimit" /\ calls[1].done
  /\ maxChannels = 2
  /\ calls[1].serverId = "s1"
  /\ calls[1].excludeChannelId = Null
  /\ calls[1].includeNewChannelId = "c3"
  /\ ExplicitlyUsed("s1") = {"c1", "c2"}
  /\ calls[1].result.isAtLimit
  /\ calls[1].result.potentialCount = 3

-----------------------------------------------------------------------------
(* The configuration commands /link, /unlink, /remove-repo and /reset, run *)
(* one after the other, with webhook auto-provisioning between them        *)

MaxAdminCommands == 3

\* the channels of a guild, which the channel option of a command offers
GuildChannels(guild) == {c \in Channels : ChannelServer(c) = guild}

\* the record kept of the last command: its options, how it ended, whether
\* every limit check of the run so far could read the store (clean), and
\* the number of commands run (n)
AdminCommand(fn, guild, url, branch, channelId, permission, outcome, clean, n) ==
  [fn |-> fn, guild |-> guild, url |-> url, branch |-> branch, channelId |-> channelId,
   permission |-> permission, outcome |-> outcome, clean |-> clean, n |-> n]

NoCommand == AdminCommand(Null, Null, NoUrl, <<>>, Null, Null, Null, TRUE, 0)

AdminFrame ==
  UNCHANGED <<globalSecret, maxChannels, served, messagesSent, errorLog, systemLog, pc,
              req, candidates, ctx, handler, responses, responseSent, loc, obs>>

\* a lookup by URL alone, without the server: { guildId } condition
RECURSIVE FindRepositoryOfAnyGuildFrom(_, _, _)
FindRepositoryOfAnyGuildFrom(i, guild, url) ==
  IF i > Len(repositories) THEN NoRepo
  ELSE IF repositories[i].url \in PossibleUrls(url) THEN repositories[i]
  ELSE FindRepositoryOfAnyGuildFrom(i + 1, guild, url)

\* prisma.repository.findFirst({ where: { server: { guildId }, url: { in:
\* possibleUrls } } }) of /link, /unlink and /remove-repo (NoRepo: null)
RECURSIVE FindRepositoryOfGuildFrom(_, _, _)
FindRepositoryOfGuildFrom(i, guild, url) ==
  IF i > Len(repositories) THEN NoRepo
  ELSE IF repositories[i].serverId = guild /\ repositories[i].url \in PossibleUrls(url)
         THEN repositories[i]
         ELSE FindRepositoryOfGuildFrom(i + 1, guild, url)

\* checkChannelLimit as /link calls it: a failed store read is caught inside
\* and answered with isAtLimit: false
LinkChannelLimit(guild, includeNewChannelId, readOk) ==
  IF readOk THEN CheckChannelLimit(guild, Null, includeNewChannelId).isAtLimit ELSE FALSE

\* /link without the channel limit logic
LinkNeverRejected(guild, channelId, already, readOk) == FALSE

\* if (channelLimit.isAtLimit && !isChannelAlreadyTracking) of /link
LinkRejected(guild, channelId, already, readOk) ==
  /\ LinkChannelLimit(guild, IF already THEN Null ELSE channelId, readOk)
  /\ ~already

\* the TrackedBranch table after the writes of /link, and how it ended
LinkWrites(repository, branch, channelId) ==
  LET mine(tb) == tb.repositoryId = repository.id /\ tb.channelId = channelId
      fresh == Tracked(repository.id, branch, channelId)
      specific == SelectSeq(trackedBranches, LAMBDA tb : mine(tb) /\ tb.branchName # Star)
  IN IF \E k \in 1..Len(trackedBranches) : trackedBranches[k] = fresh
       THEN [rows |-> trackedBranches, outcome |-> "already"]
     ELSE IF branch = Star
       THEN IF specific # <<>>
              THEN [rows |-> SelectSeq(trackedBranches,
                                       LAMBDA tb : ~(mine(tb) /\ tb.branchName # Star)),
                    outcome |-> "replaced"]
              ELSE [rows |-> Append(trackedBranches, fresh), outcome |-> "linked"]
     ELSE [rows |-> Append(SelectSeq(trackedBranches,
                                     LAMBDA tb : ~(mine(tb) /\ tb.branchName = Star)),
                           fresh),
           outcome |-> "linked"]

\* /link url branch channel
Link ==
  /\ calls[1].n < MaxAdminCommands
  /\ \E guild \in Servers, branch \in {Star, BrMain}, readOk \in BOOLEAN :
     \E channelId \in GuildChannels(guild) :
       LET repository == FindRepositoryOfGuildFrom(1, guild, UrlA)
           repoIds == {r.id : r \in {x \in Range(repositories) : x.serverId = guild}}
           already == \E k \in 1..Len(trackedBranches) :
                         /\ trackedBranches[k].repositoryId \in repoIds
                         /\ trackedBranches[k].channelId = channelId
           written == LinkWrites(repository, branch, channelId)
           outcome == IF repository = NoRepo THEN "notFound"
                      ELSE IF LinkRejected(guild, channelId, already, readOk)
                        THEN "limit"
                        ELSE written.outcome
       IN /\ trackedBranches' = IF outcome \in {"notFound", "limit"}
                                  THEN trackedBranches ELSE written.rows
          /\ calls' = <<AdminCommand("link", guild, UrlA, branch, channelId, Null, outcome,
                                     calls[1].clean /\ (readOk \/ repository = NoRepo),
                                     calls[1].n + 1)>>
  /\ UNCHANGED <<repositories, eventChannels>>
  /\ AdminFrame

\* /unlink url branch [channel]
Unlink ==
  /\ calls[1].n < MaxAdminCommands
  /\ \E guild \in Servers, branch \in {Star, BrMain} :
     \E channelId \in GuildChannels(guild) \cup {Null} :
       LET repository == FindRepositoryOfGuildFrom(1, guild, UrlA)
           hit(tb) == /\ tb.repositoryId = repository.id
                      /\ (branch # Star => tb.branchName = branch)
                      /\ (channelId # Null => tb.channelId = channelId)
           rows == SelectSeq(trackedBranches, LAMBDA tb : ~hit(tb))
           outcome == IF repository = NoRepo THEN "notFound"
                      ELSE IF rows = trackedBranches THEN "nothing" ELSE "unlinked"
       IN /\ trackedBranches' = IF repository = NoRepo THEN trackedBranches ELSE rows
          /\ calls' = <<AdminCommand("unlink", guild, UrlA, branch, channelId, Null, outcome,
                                     calls[1].clean, calls[1].n + 1)>>
  /\ UNCHANGED <<repositories, eventChannels>>
  /\ AdminFrame

\* the three deletions of /remove-repo and of the reset confirmation, in
\* order: TrackedBranch rows, RepositoryEventChannel rows, Repository rows
\* of the repositories ids; the awaits that follow a failed one (failAt) are
\* not reached
DeleteRepositories(ids, failAt) ==
  /\ trackedBranches' = IF failAt = 1 THEN trackedBranches
                        ELSE SelectSeq(trackedBranches, LAMBDA tb : tb.repositoryId \notin ids)
  /\ eventChannels' = IF failAt \in {1, 2} THEN eventChannels
                      ELSE SelectSeq(eventChannels, LAMBDA m : m.repositoryId \notin ids)
  /\ repositories' = IF failAt \in {1, 2, 3} THEN repositories
                     ELSE SelectSeq(repositories, LAMBDA r : r.id \notin ids)

\* /remove-repo url
RemoveRepo ==
  /\ calls[1].n < MaxAdminCommands
  /\ \E guild \in Servers, failAt \in 0..3 :
       LET repository == FindRepositoryOfGuildFrom(1, guild, UrlA)
       IN /\ IF repository = NoRepo
               THEN failAt = 0 /\ UNCHANGED <<repositories, trackedBranches, eventChannels>>
               ELSE /\ failAt = 1 =>
                         \E k \in 1..Len(trackedBranches) :
                           trackedBranches[k].repositoryId = repository.id
                    /\ DeleteRepositories({repository.id}, failAt)
          /\ calls' = <<AdminCommand("remove-repo", guild, UrlA, <<>>, Null, Null,
                                     IF repository = NoRepo THEN "notFound"
                                     ELSE IF failAt = 0 THEN "removed" ELSE "error",
                                     calls[1].clean, calls[1].n + 1)>>
  /\ AdminFrame

\* the permissions a member may hold
Permissions == {"Administrator", "ManageWebhooks", "none"}

\* checkPermissions(interaction)
checkPermissions(permission) == permission \in {"Administrator", "ManageWebhooks"}

\* /reset confirm, followed by the press of a button of the confirmation
\* message before the collector times out (pressed: the confirm button)
Reset ==
  /\ calls[1].n < MaxAdminCommands
  /\ \E guild \in Servers, permission \in Permissions, confirm \in BOOLEAN,
        pressed \in BOOLEAN, failAt \in 0..3 :
       LET ids == {r.id : r \in {x \in Range(repositories) : x.serverId = guild}}
           outcome == IF ~checkPermissions(permission) THEN "denied"
                      ELSE IF ~confirm THEN "unconfirmed"
                      ELSE IF ~pressed THEN "cancelled"
                      ELSE IF failAt = 0 THEN "reset" ELSE "error"
       IN /\ IF outcome \in {"reset", "error"}
               THEN DeleteRepositories(ids, failAt)
               ELSE failAt = 0 /\ UNCHANGED <<repositories, trackedBranches, eventChannels>>
          /\ calls' = <<AdminCommand("reset", guild, NoUrl, <<>>, Null, permission, outcome,
                                     calls[1].clean, calls[1].n + 1)>>
  /\ AdminFrame

\* the store accepting an event mapping of a repository that is gone
MappingInsertUnchecked(repositoryId) == TRUE

\* the foreign key of RepositoryEventChannel.repository: a row is accepted
\* only for an existing Repository
MappingInsertAccepted(repositoryId) ==
  \E k \in 1..Len(repositories) : repositories[k].id = repositoryId

\* getEventRouting called by a webhook request that resolved its repository
\* before the commands ran: findFirst, then create when nothing was found; a
\* create the store refuses throws into the catch block
AutoProvision ==
  /\ calls[1].n < MaxAdminCommands
  /\ \E repositoryId \in {1, 2} :
       /\ eventChannels' =
            IF /\ FindFirstMapping(repositoryId, "issues") = NoMapping
               /\ MappingInsertAccepted(repositoryId)
              THEN Append(eventChannels, DefaultRoutingMapping(repositoryId, "issues"))
              ELSE eventChannels
       /\ calls' = <<AdminCommand("getEventRouting", Null, NoUrl, <<>>, Null, Null,
                                  IF eventChannels' = eventChannels THEN "kept" ELSE "created",
                                  calls[1].clean, calls[1].n + 1)>>
  /\ UNCHANGED <<repositories, trackedBranches>>
  /\ AdminFrame

AdminInit ==
  /\ IdleProcess
  /\ repositories = InitRepositories(<<"k1", "k2", "kG">>, "c1")
  /\ globalSecret = "kG"
  /\ trackedBranches = <<>>
  /\ eventChannels = <<>>
  /\ maxChannels \in {0, 1}
  /\ calls = <<NoCommand>>

AdminNext ==
  \/ Link
  \/ Unlink
  \/ RemoveRepo
  \/ Reset
  \/ AutoProvision

SpecAdmin == AdminInit /\ [][AdminNext]_vars

\* the channels of the guild in explicit use
UsedBy(guild) == Cardinality(ExplicitlyUsed(guild))

\* the step is a /link of a configured repository
LinkStep ==
  /\ calls'[1].n = calls[1].n + 1
  /\ calls'[1].fn = "link"
  /\ calls'[1].outcome # "notFound"

-----------------------------------------------------------------------------
(* /setup, one store call at a time, so that the calls of two commands     *)
(* interleave (src/commands/setup.js, checkRepositoryLimit)                *)

MaxSetups == 2
MaxReposAllowed == 2

Slash == <<"/">>
UrlY == <<"g", "h", "/", "y">>
UrlASlash == UrlA \o Slash
UrlAGitSlash == UrlAGit \o Slash
SetupUrls == {UrlA, UrlASlash, UrlAGit, UrlAGitSlash, UrlX, UrlY}

\* the URL checks of /setup that depend on the end of the URL: a path
\* ending in .git is refused
SetupUrlValid(repoUrl) == ~EndsWith(repoUrl, DotGit)

\* standardizedUrl of /setup: a trailing .git is cut first, a trailing slash
\* after it
StandardizedUrl(repoUrl) ==
  LET tempUrl == IF EndsWith(repoUrl, DotGit) THEN SubSeq(repoUrl, 1, Len(repoUrl) - 4)
                 ELSE repoUrl
  IN IF EndsWith(tempUrl, Slash) THEN SubSeq(tempUrl, 1, Len(tempUrl) - 1) ELSE tempUrl

\* possibleUrls of /setup
SetupPossibleUrls(standardizedUrl) ==
  {standardizedUrl, standardizedUrl \o DotGit, standardizedUrl \o Slash,
   standardizedUrl \o DotGit \o Slash}

\* the Repository rows of a guild
RepositoriesOf(guild) == {k \in 1..Len(repositories) : repositories[k].serverId = guild}

\* checkRepositoryLimit, the count having succeeded
checkRepositoryLimit(serverId) ==
  LET currentRepoCount == Cardinality(RepositoriesOf(serverId))
  IN [isAtLimit |-> currentRepoCount >= MaxReposAllowed,
      currentCount |-> currentRepoCount,
      remaining |-> IF MaxReposAllowed > currentRepoCount
                      THEN MaxReposAllowed - currentRepoCount ELSE 0]

\* checkRepositoryLimit from its catch block
RepositoryLimitFailure ==
  [isAtLimit |-> FALSE, currentCount |-> 0, remaining |-> MaxReposAllowed]

\* one /setup command (or one /remove-repo, which has no steps here): its
\* options, its position, and the locals repoLimit and existingRepository
\* (its id; 0 for null)
SetupSession(fn, guild, url, at, repoLimit, readOk, existing, outcome) ==
  [fn |-> fn, guild |-> guild, url |-> url, at |-> at, repoLimit |-> repoLimit,
   readOk |-> readOk, existing |-> existing, outcome |-> outcome]

\* the command arrives: URL checks, standardisation, server upsert
SetupStart ==
  /\ Len(calls) < MaxSetups
  /\ \E guild \in Servers, url \in SetupUrls :
       calls' = Append(calls,
                       IF SetupUrlValid(url)
                         THEN SetupSession("setup", guild, url, "limit",
                                           RepositoryLimitFailure, TRUE, 0, Null)
                         ELSE SetupSession("setup", guild, url, "done",
                                           RepositoryLimitFailure, TRUE, 0, "invalid"))
  /\ UNCHANGED <<repositories, trackedBranches, eventChannels>>
  /\ AdminFrame

\* const repoLimit = await checkRepositoryLimit(prisma, server.id)
SetupCheckLimit ==
  /\ \E i \in 1..Len(calls), readOk \in BOOLEAN :
       /\ calls[i].at = "limit"
       /\ calls' = [calls EXCEPT ![i].at = "find",
                                 ![i].readOk = readOk,
                                 ![i].repoLimit = IF readOk
                                                    THEN checkRepositoryLimit(calls[i].guild)
                                                    ELSE RepositoryLimitFailure]
  /\ UNCHANGED <<repositories, trackedBranches, eventChannels>>
  /\ AdminFrame

\* the id of the first Repository row of the guild under one of the urls
RECURSIVE FindExistingFrom(_, _, _)
FindExistingFrom(i, guild, urls) ==
  IF i > Len(repositories) THEN 0
  ELSE IF repositories[i].serverId = guild /\ repositories[i].url \in urls
         THEN repositories[i].id
         ELSE FindExistingFrom(i + 1, guild, urls)

\* let existingRepository = await prisma.repository.findFirst(...)
SetupFind ==
  /\ \E i \in 1..Len(calls) :
       /\ calls[i].at = "find"
       /\ calls' = [calls EXCEPT
                      ![i].at = "write",
                      ![i].existing =
                         FindExistingFrom(1, calls[i].guild,
                                          SetupPossibleUrls(StandardizedUrl(calls[i].url)))]
  /\ UNCHANGED <<repositories, trackedBranches, eventChannels>>
  /\ AdminFrame

\* the rest of /setup: repository.update of the row found, else the limit
\* answer, else repository.create; an update of a row that is gone and a
\* create that breaks @@unique([serverId, url]) throw
SetupWrite ==
  /\ \E i \in 1..Len(calls) :
       LET s == calls[i]
           standardizedUrl == StandardizedUrl(s.url)
           alive == \E k \in 1..Len(repositories) : repositories[k].id = s.existing
           taken == \E k \in RepositoriesOf(s.guild) : repositories[k].url = standardizedUrl
           outcome == IF s.existing # 0 THEN (IF alive THEN "updated" ELSE "error")
                      ELSE IF s.repoLimit.isAtLimit THEN "limit"
                      ELSE IF taken THEN "error" ELSE "created"
       IN /\ s.at = "write"
          /\ repositories' =
               CASE outcome = "updated" ->
                      [k \in 1..Len(repositories) |->
                         IF repositories[k].id = s.existing
                           THEN [repositories[k] EXCEPT !.webhookSecret = "k3",
                                                        !.notificationChannelId = "c2"]
                           ELSE repositories[k]]
                 [] outcome = "created" ->
                      Append(repositories, Repo(10 + i, s.guild, standardizedUrl, "k3", "c2"))
                 [] OTHER -> repositories
          /\ calls' = [calls EXCEPT ![i].at = "done", ![i].outcome = outcome]
  /\ UNCHANGED <<trackedBranches, eventChannels>>
  /\ AdminFrame

\* a whole /remove-repo between two store calls of the /setup commands
SetupRemoveRepo ==
  /\ Len(calls) < MaxSetups
  /\ \E guild \in Servers, url \in {UrlA, UrlX} :
       LET repository == FindRepositoryOfGuildFrom(1, guild, url)
       IN /\ IF repository = NoRepo
               THEN UNCHANGED <<repositories, trackedBranches, eventChannels>>
               ELSE DeleteRepositories({repository.id}, 0)
          /\ calls' = Append(calls,
                             SetupSession("remove-repo", guild, url, "done",
                                          RepositoryLimitFailure, TRUE, 0,
                                          IF repository = NoRepo THEN "notFound"
                                          ELSE "removed"))
  /\ AdminFrame

SetupInit ==
  /\ IdleInit
  /\ eventChannels = <<>>
  /\ calls = <<>>

SetupNext ==
  \/ SetupStart
  \/ SetupCheckLimit
  \/ SetupFind
  \/ SetupWrite
  \/ SetupRemoveRepo

SpecSetup == SetupInit /\ [][SetupNext]_vars

\* C23: no guild holds more Repository rows than the maximum after /setup
\* and /remove-repo commands whose limit checks could all read the store,
\* two /setup commands with interleaved store calls included.
C23_RepositoryLimit ==
  (\A i \in 1..Len(calls) : calls[i].readOk) =>
    \A guild \in Servers : Cardinality(RepositoriesOf(guild)) <= MaxReposAllowed

\* a URL without its trailing slashes and .git suffixes
RECURSIVE CanonicalUrl(_)
CanonicalUrl(u) ==
  IF EndsWith(u, Slash) THEN CanonicalUrl(SubSeq(u, 1, Len(u) - 1))
  ELSE IF EndsWith(u, DotGit) THEN CanonicalUrl(SubSeq(u, 1, Len(u) - 4))
  ELSE u

\* C24: a guild holds at most one Repository row per repository URL (a
\* trailing .git or slash aside), and the URL of an inbound webhook matches
\* at most one Repository row of a guild.
C24_OneRowPerUrl ==
  \A guild \in Servers, u \in {UrlA, UrlX, UrlY} :
    /\ Cardinality({k \in RepositoriesOf(guild) :
                      CanonicalUrl(repositories[k].url) = u}) <= 1
    /\ Cardinality({k \in RepositoriesOf(guild) :
                      repositories[k].url \in PossibleUrls(u)}) <= 1

\* the ids of the Repository rows
RepositoryIds == {repositories[k].id : k \in 1..Len(repositories)}

C26_ResetAdministratorOnly ==
  (calls[1].fn = "reset" /\ calls[1].outcome \in {"reset", "error"}) =>
    calls[1].permission = "Administrator"

-----------------------------------------------------------------------------
(* Store failures during the routing lookup of a webhook request           *)

\* the milestone request in progress lost its mapping lookup or creation to
\* a store failure (no delivery was started)
MilestoneLookupFailed ==
  /\ handler = "handleMilestoneEvent"
  /\ obs.storeFailed
  /\ obs.attempts = <<>>

-----------------------------------------------------------------------------
(* Uniqueness of the event mappings                                        *)

\* C28: after any sequence of completed /set-event-channel, /edit-event (with
\* one or several button presses in a session) and /remove-event-channel
\* commands and of webhook auto-provisioning, the store holds at most one
\* RepositoryEventChannel row per (repository, event type).
C28_OneMappingPerPair ==
  pc = "idle" =>
    \A repositoryId \in {1, 2}, eventType \in RoutedEvents :
      Cardinality(RowsOf(repositoryId, eventType)) <= 1

-----------------------------------------------------------------------------
(* Auto-provisioning by webhook requests whose store calls interleave      *)

MaxProvisioners == 2

\* a request inside the find-then-create of its routing lookup: who looks
\* (fn), for which pair, and where it stands (at)
Provisioner(fn, repositoryId, eventType, at) ==
  [fn |-> fn, repositoryId |-> repositoryId, eventType |-> eventType, at |-> at]

\* the row the lookup creates when it found none
ProvisionedMapping(p) ==
  IF p.fn = "handleMilestoneEvent" THEN MilestoneDefaultMapping(p.repositoryId)
  ELSE DefaultRoutingMapping(p.repositoryId, p.eventType)

\* a request reaches its routing lookup
ProvisionStart ==
  /\ Len(calls) < MaxProvisioners
  /\ \E repositoryId \in {1, 2} :
       \/ calls' = Append(calls, Provisioner("handleMilestoneEvent", repositoryId,
                                             "milestone", "find"))
       \/ \E eventType \in {"milestone", "issues"} :
            calls' = Append(calls, Provisioner("getEventRouting", repositoryId, eventType,
                                               "find"))
  /\ UNCHANGED eventChannels
  /\ CommandFrame

\* await prisma.repositoryEventChannel.findFirst(...): the mapping is there,
\* or it is not, or the store fails
ProvisionFind ==
  /\ \E i \in 1..Len(calls) :
       /\ calls[i].at = "find"
       /\ \/ calls' = [calls EXCEPT ![i].at = "failed"]
          \/ calls' = [calls EXCEPT
                         ![i].at = IF FindFirstMapping(calls[i].repositoryId,
                                                       calls[i].eventType) = NoMapping
                                     THEN "create" ELSE "found"]
  /\ UNCHANGED eventChannels
  /\ CommandFrame

\* await prisma.repositoryEventChannel.create(...) of the default mapping
ProvisionCreate ==
  /\ \E i \in 1..Len(calls) :
       /\ calls[i].at = "create"
       /\ \/ /\ calls' = [calls EXCEPT ![i].at = "failed"]
             /\ UNCHANGED eventChannels
          \/ /\ calls' = [calls EXCEPT ![i].at = "created"]
             /\ eventChannels' = Append(eventChannels, ProvisionedMapping(calls[i]))
  /\ CommandFrame

ProvisionInit ==
  /\ IdleInit
  /\ eventChannels = <<>>
  /\ calls = <<>>

ProvisionNext ==
  \/ ProvisionStart
  \/ ProvisionFind
  \/ ProvisionCreate

SpecProvision == ProvisionInit /\ [][ProvisionNext]_vars

\* C29: two webhook requests for the same repository and event type whose
\* store calls interleave while no mapping exists never both create a row:
\* the pair has at most one RepositoryEventChannel row.
C29_OneProvisionedRow ==
  \A repositoryId \in {1, 2}, eventType \in {"milestone", "issues"} :
    Cardinality(RowsOf(repositoryId, eventType)) <= 1

-----------------------------------------------------------------------------
(* getEventRouting over stored mappings that override the defaults         *)

\* an issues mapping whose stored actionsEnabled switches off an action the
\* defaults switch on, switches on one they switch off, holds an action the
\* default table does not know (milestoned) and lacks the other defaults
IssuesOverridesMapping ==
  Mapping(1, "issues", "c2",
          [a \in {"closed", "comments", "milestoned"} |-> a # "closed"], TRUE)

\* a pull_request mapping that stores every default as it is
PullRequestDefaultsMapping ==
  Mapping(1, "pull_request", "default", getDefaultActionsForEvent("pull_request"), FALSE)

MergeInit ==
  /\ IdleInit
  /\ eventChannels \in {<<IssuesOverridesMapping>>, <<IssuesChannelMapping>>,
                        <<PullRequestDefaultsMapping, IssuesOverridesMapping>>}
  /\ calls = <<>>

SpecMerge == MergeInit /\ [][ResolveRouting]_vars

\* C30: a getEventRouting call that finds a mapping returns as
\* config.actionsEnabled the default table of the event type overridden key
\* by key by the stored actionsEnabled: a stored value wins (a stored false
\* over a default true included), a key absent from the store takes its
\* default, a stored key unknown to the default table is kept; the call
\* leaves the stored mappings as they are.
C30_StoredOverridesDefaults ==
  [][LET c == calls'[Len(calls')]
         defaults == getDefaultActionsForEvent(c.eventType)
         stored == FindFirstMapping(c.repositoryId, c.eventType).config.actionsEnabled
         merged == c.result.config.actionsEnabled
     IN (Len(calls') = Len(calls) + 1 /\ c.found /\ ~c.threw) =>
          /\ eventChannels' = eventChannels
          /\ DOMAIN merged = DOMAIN defaults \cup DOMAIN stored
          /\ \A a \in DOMAIN stored : merged[a] = stored[a]
          /\ \A a \in DOMAIN defaults \ DOMAIN stored : merged[a] = defaults[a]]_vars

\* the issues mapping with overrides was resolved: closed stays off against
\* its default, opened takes its default, milestoned is kept
C30_Witness ==
  /\ calls # <<>>
  /\ calls[1].eventType = "issues" /\ calls[1].repositoryId = 1
  /\ calls[1].found /\ ~calls[1].threw
  /\ eventChannels[Len(eventChannels)] = IssuesOverridesMapping
  /\ ~calls[1].result.config.actionsEnabled["closed"]
  /\ calls[1].result.config.actionsEnabled["opened"]
  /\ calls[1].result.config.actionsEnabled["milestoned"]

-----------------------------------------------------------------------------
(* getEventRouting over the channels a stored mapping can hold             *)

\* what the commands and the resolver store as channelId: the sentinel of
\* the auto-created mapping, a channel id, 'pending' (written by /edit-event
\* for a repository without a default channel), or nothing
StoredChannels == {"default", "c1", "c2", "pending", Null}

ChannelInit ==
  /\ IdleInit
  /\ \E channelId \in StoredChannels, explicit \in BOOLEAN :
       eventChannels = <<Mapping(1, "issues", channelId, NoActions, explicit)>>
  /\ calls = <<>>

SpecChannel == ChannelInit /\ [][ResolveRouting]_vars

\* the channel ids a message can be sent to
UsableChannel(channelId) == channelId \in Channels

\* C31: getEventRouting returns the fallback channel (or 'pending' without a
\* fallback) when the stored channel is 'default' or equals the fallback with
\* explicitChannel not true; otherwise the stored channel, or the fallback,
\* or 'pending' when the stored channel is empty; and it returns 'pending'
\* only when neither the stored channel nor the fallback is usable.
C31_EffectiveChannel ==
  \A i \in 1..Len(calls) :
    (calls[i].found /\ ~calls[i].threw) =>
      LET m == FindFirstMapping(calls[i].repositoryId, calls[i].eventType)
          fallback == calls[i].fallbackChannelId
          channelId == calls[i].result.channelId
          orPending == IF fallback # Null THEN fallback ELSE "pending"
      IN /\ (m.channelId = "default" \/ (m.channelId = fallback /\ ~m.config.explicitChannel))
              => channelId = orPending
         /\ ~(m.channelId = "default" \/ (m.channelId = fallback /\ ~m.config.explicitChannel))
              => channelId = (IF m.channelId # Null THEN m.channelId ELSE orPending)
         /\ channelId = "pending" => (~UsableChannel(m.channelId) /\ ~UsableChannel(fallback))

-----------------------------------------------------------------------------
(* Store failures inside getEventRouting                                   *)

\* C32: a getEventRouting call whose lookup or auto-create fails returns to
\* its caller with channelId the fallback channel, or 'pending' without one,
\* and config null; the failed call adds no row.
C32_FailureDegrades ==
  \A i \in 1..Len(calls) :
    (calls[i].fn = "getEventRouting" /\ calls[i].threw) =>
      /\ calls[i].result.channelId =
           (IF calls[i].fallbackChannelId # Null THEN calls[i].fallbackChannelId
            ELSE "pending")
      /\ DOMAIN calls[i].result.config = {"null"}
      /\ (i = Len(calls) => Len(eventChannels) = calls[i].rowsBefore)

\* a failed resolution with a fallback, followed by one without
C32_Witness ==
  /\ Len(calls) = 2
  /\ calls[1].threw /\ calls[1].fallbackChannelId = "c1" /\ calls[1].result.channelId = "c1"
  /\ calls[2].threw /\ calls[2].fallbackChannelId = Null
  /\ calls[2].result.channelId = "pending"

-----------------------------------------------------------------------------
(* matchesBranchPattern over the wildcard shapes                           *)

BrF == <<"f">>
BrFN == <<"f", "n">>
BrInner == <<"f", "/", "n", "/", "d">>
BrSlash == <<"/", "n">>
PatTwice == <<"f">> \o SlashStar \o SlashStar
PatLead == <<"*", "f">>
PatTail == <<"f", "*">>
PatStars == <<"*">> \o SlashStar

\* branch names over [A-Za-z0-9-_/.]
WildcardBranches ==
  {BrMain, BrDev, BrRel, BrRelBare, BrFeature, BrF, BrFN, BrInner, BrSlash, PatDotted}

WildcardPatterns ==
  {Star, PatFeature, PatRel, SlashStar, PatInner, PatAround, PatTwice, PatLead, PatTail,
   PatStars, BrF}

WildcardInit ==
  /\ IdleInit
  /\ eventChannels = <<>>
  /\ \E b \in WildcardBranches, p \in WildcardPatterns :
       calls = <<MatcherCall("matchesBranchPattern", b, p, <<>>, FALSE, FALSE, <<>>)>>

SpecWildcard == WildcardInit /\ [][MatchesBranchPatternCall]_vars

\* the pattern holds a wildcard
Wildcarded(p) == Includes(p, "*")

\* the pattern is a wildcard-free p followed by /*
TrailingWildcard(p) ==
  /\ EndsWith(p, SlashStar)
  /\ ~Wildcarded(SubSeq(p, 1, Len(p) - 2))

\* C33: a pattern 'p/*' matches a branch exactly when the branch starts with
\* 'p/', and a pattern of any other wildcard shape, the lone '*' aside,
\* matches no branch name over the allowed characters.
C33_WildcardShapes ==
  (Returned("matchesBranchPattern") /\ MatchesNameChars(calls[1].branchName)) =>
    LET b == calls[1].branchName
        p == calls[1].pattern
    IN /\ TrailingWildcard(p) =>
            (calls[1].result <=>
               /\ Len(b) >= Len(p) - 1
               /\ \A k \in 1..(Len(p) - 1) : b[k] = p[k])
       /\ (Wildcarded(p) /\ p # Star /\ ~TrailingWildcard(p)) => ~calls[1].result

\* 'f' was matched against 'f/*' and refused
C33_Witness ==
  /\ Returned("matchesBranchPattern")
  /\ calls[1].branchName = BrF
  /\ calls[1].pattern = PatFeature
  /\ ~calls[1].result

-----------------------------------------------------------------------------
(* The branch patterns /link stores                                        *)

MaxLinks == 2

\* isValidBranchPattern of the link command: /^[a-zA-Z0-9\-_.\/*]+$/
LinkIsValidBranchPattern(pattern) ==
  /\ Len(pattern) > 0
  /\ \A i \in 1..Len(pattern) : pattern[i] \in NameChars \cup {"*"}

\* /link url branch channel with a branch option of any shape
LinkPattern ==
  /\ calls[1].n < MaxLinks
  /\ \E branch \in MatcherPatterns \cup WildcardPatterns, channelId \in GuildChannels("s1") :
       LET repository == FindRepositoryOfGuildFrom(1, "s1", UrlA)
           repoIds == {r.id : r \in {x \in Range(repositories) : x.serverId = "s1"}}
           already == \E k \in 1..Len(trackedBranches) :
                         /\ trackedBranches[k].repositoryId \in repoIds
                         /\ trackedBranches[k].channelId = channelId
           written == LinkWrites(repository, branch, channelId)
           outcome == IF ~LinkIsValidBranchPattern(branch) THEN "invalid"
                      ELSE IF repository = NoRepo THEN "notFound"
                      ELSE IF LinkRejected("s1", channelId, already, TRUE) THEN "limit"
                      ELSE written.outcome
       IN /\ trackedBranches' = IF outcome \in {"invalid", "notFound", "limit"}
                                  THEN trackedBranches ELSE written.rows
          /\ calls' = <<AdminCommand("link", "s1", UrlA, branch, channelId, Null, outcome,
                                     TRUE, calls[1].n + 1)>>
  /\ UNCHANGED <<repositories, eventChannels>>
  /\ AdminFrame

LinkPatternInit ==
  /\ IdleProcess
  /\ repositories = InitRepositories(<<"k1", "k2", "kG">>, "c1")
  /\ globalSecret = "kG"
  /\ trackedBranches = <<>>
  /\ eventChannels = <<>>
  /\ maxChannels = Unlimited
  /\ calls = <<NoCommand>>

SpecLinkPattern == LinkPatternInit /\ [][LinkPattern]_vars

\* C34: /link accepts a pattern exactly when the shared validator accepts it,
\* and every stored pattern is '*', a wildcard-free name, a prefix followed
\* by /*, or the negation of one of these other than '!*'.
C34_StoredPatternsValid ==
  /\ calls[1].fn = "link" =>
       (calls[1].outcome # "invalid" <=> isValidBranchPattern(calls[1].branch))
  /\ \A k \in 1..Len(trackedBranches) :
       LET p == trackedBranches[k].branchName
       IN p = Star \/ PlainName(p) \/ PrefixForm(p) \/ NegatedForm(p)

-----------------------------------------------------------------------------
\* C37: after /link with '*' completed for a (repository, channel) pair that
\* had rows of specific patterns, the pair has a row of '*', so that a push
\* to any branch of the repository is delivered to the channel.
C37_WildcardRowAfterReplace ==
  (calls[1].fn = "link" /\ calls[1].branch = Star /\ calls[1].outcome = "replaced") =>
     \E k \in 1..Len(trackedBranches) :
        /\ trackedBranches[k].repositoryId =
             FindRepositoryOfGuildFrom(1, calls[1].guild, calls[1].url).id
        /\ trackedBranches[k].channelId = calls[1].channelId
        /\ matchesBranchPattern(BrDev, trackedBranches[k].branchName)

-----------------------------------------------------------------------------
(* Milestone webhooks and the stored actionsEnabled                        *)

\* milestone webhooks that pass every check of the dispatcher
MilestoneRequests ==
  {Request("json", UrlA, Sig(TRUE, "k1", RawBody), Payload("milestone", a, <<>>, Null)) :
     a \in {"created", "opened", "closed", "edited", "deleted"}}

ReceiveMilestone == ReceiveFrom(MilestoneRequests)

\* the milestone rows of repository 1: none (the handler creates one), and
\* the ones /edit-event leaves after actions were switched off
MilestoneRows ==
  {<<>>,
   <<Mapping(1, "milestone", "default",
             [a \in {"created", "opened", "closed"} |-> a # "closed"], FALSE)>>,
   <<Mapping(1, "milestone", "c1",
             [a \in {"created", "opened", "closed"} |-> a = "created"], FALSE)>>}

MilestoneInit ==
  /\ IdleInit
  /\ eventChannels \in MilestoneRows
  /\ calls = <<>>

MilestoneNext ==
  \/ ReceiveMilestone
  \/ CheckContentType
  \/ CheckPayload
  \/ LookupRepositories
  \/ CheckSignature
  \/ ValidateSignature
  \/ CheckEvent
  \/ Dispatch
  \/ OuterCatch
  \/ DeliverFetch
  \/ DeliverSend
  \/ DeliverUpdate
  \/ MilestoneFindMapping
  \/ MilestoneCreateMapping
  \/ HandlerReturned
  \/ HandlerThrew
  \/ LogHandlerError
  \/ LogHandlerErrorAgain
  \/ Finish

SpecMilestone == MilestoneInit /\ [][MilestoneNext]_vars


\* actionsEnabled of the stored mapping allows the action: its own entry when
\* it has one, otherwise membership of created/opened/closed
MilestoneActionAllowed(m, action) ==
  IF action \in DOMAIN m.config.actionsEnabled
    THEN m.config.actionsEnabled[action]
    ELSE action \in {"created", "opened", "closed"}

\* the milestone handler leaves its routing part without a store failure
MilestoneRouted ==
  /\ handler = "handleMilestoneEvent"
  /\ pc \in {"handler", "createMapping"}
  /\ pc' \in {"fetch", "returned"}

\* C35: a milestone webhook goes on to delivery exactly when the stored
\* actionsEnabled allows its action (created, opened and closed unless set to
\* false, any other action only when set to true), and the first milestone
\* event of a repository creates the mapping with created/opened/closed
\* enabled and channel 'default'.
C35_MilestoneFilter ==
  [][MilestoneRouted =>
       LET m == FindFirstFrom(eventChannels', 1, ctx.id, "milestone")
       IN /\ m # NoMapping
          /\ pc' = "fetch" <=> MilestoneActionAllowed(m, req.action)
          /\ pc' = "fetch" => loc'.chan = "c1"
          /\ pc = "createMapping" =>
               /\ eventChannels' = Append(eventChannels, m)
               /\ m.channelId = "default"
               /\ m.config.actionsEnabled = [a \in {"created", "opened", "closed"} |-> TRUE]
          /\ pc = "handler" => eventChannels' = eventChannels]_vars

\* a milestone 'closed' webhook was acknowledged without delivery because the
\* stored mapping disables 'closed'
C35_Witness ==
  /\ handler = "handleMilestoneEvent"
  /\ pc = "returned"
  /\ req.action = "closed"
  /\ eventChannels # <<>>
  /\ ~eventChannels[1].config.actionsEnabled["closed"]

-----------------------------------------------------------------------------
(* Termination of a request                                                *)

\* a step of the request in flight.  Every await of the dispatcher and of the
\* handlers is a store call or a chat-client call; each of them returns or
\* fails, and the event loop then runs the continuation.
Processing == pc # "idle" /\ Next

SpecLive == Spec /\ WF_vars(Processing)

\* C36: every webhook request eventually receives an HTTP response, on every
\* path: a missing channel, a failed send, a store error, a failed log write
\* or a handler exception never leaves the request unanswered.
C36_EventuallyAnswered == (pc # "idle") ~> (responses # <<>>)

\* a handler threw, both writes of the error log failed, and the request was
\* answered
C36_Witness ==
  /\ pc = "done"
  /\ handler # Null
  /\ obs.logFailed
  /\ Len(errorLog) = obs.startErr
  /\ responseSent
  /\ responses # <<>>

-----------------------------------------------------------------------------
(* /set-default-channel and the mappings made under the previous default   *)

\* /set-default-channel execute: the repository is looked up by id and guild
\* and only its notificationChannelId is written
SetDefaultChannel ==
  /\ pc = "idle"
  /\ Len(calls) < MaxCommands
  /\ \E repositoryId \in {1, 2}, channelId \in {"c1", "c2"} :
       LET k == RepositoryOfGuild(repositoryId, ChannelServer(channelId))
       IN /\ repositories' =
               IF k # 0 THEN [repositories EXCEPT ![k].notificationChannelId = channelId]
                        ELSE repositories
          /\ calls' = Append(calls, Command("set-default-channel", repositoryId, Null,
                                            channelId, <<>>, k # 0))
  /\ UNCHANGED <<trackedBranches, eventChannels, globalSecret, maxChannels, served,
                 messagesSent, errorLog, systemLog, pc, req, candidates, ctx, handler,
                 responses, responseSent, loc, obs>>

SpecDefaultChannel == RoutesInit /\ [][RoutesNext \/ SetDefaultChannel]_vars

\* C38: an event type for which no channel was chosen with /set-event-channel
\* resolves to the current default channel of the repository, also when its
\* mapping was created while the default was another channel.
C38_FollowsNewDefault ==
  (/\ pc = "fetch"
   /\ handler = "handleMilestoneEvent"
   /\ ~\E i \in 1..Len(calls) :
         /\ calls[i].fn = "set-event-channel"
         /\ calls[i].repositoryId = ctx.id
         /\ calls[i].eventType = "milestone")
    => loc.chan = repositories[1].notificationChannelId

-----------------------------------------------------------------------------
(* Commands of one guild and the rows of another                           *)

\* /set-event-channel repository event channel, invoked in a guild with the
\* id of any repository
GuildSetEventChannel ==
  /\ calls[1].n < MaxAdminCommands
  /\ \E guild \in Servers, repositoryId \in {1, 2}, eventType \in {"issues", "milestone"} :
     \E channelId \in GuildChannels(guild) :
       LET found == RepositoryOfGuild(repositoryId, guild) # 0
       IN /\ eventChannels' = IF found
                                THEN SetEventChannelWrite(repositoryId, eventType, channelId)
                                ELSE eventChannels
          /\ calls' = <<AdminCommand("set-event-channel", guild, NoUrl, <<>>, channelId, Null,
                                     IF found THEN "set" ELSE "notFound",
                                     calls[1].clean, calls[1].n + 1)>>
  /\ UNCHANGED <<repositories, trackedBranches>>
  /\ AdminFrame

SpecGuild == AdminInit /\ [][AdminNext \/ GuildSetEventChannel]_vars

\* the rows of the three tables that do not belong to the guild
RowsOfOthers(guild, repos, tracked, mappings) ==
  LET others == {r.id : r \in {x \in Range(repositories) : x.serverId # guild}}
  IN <<SelectSeq(repos, LAMBDA r : r.id \in others),
       SelectSeq(tracked, LAMBDA tb : tb.repositoryId \in others),
       SelectSeq(mappings, LAMBDA m : m.repositoryId \in others)>>

\* C39: a slash command invoked in a guild leaves the Repository,
\* TrackedBranch and RepositoryEventChannel rows of every other guild as they
\* were, and a command that finds no repository of its own guild ends with a
\* not-found reply and writes nothing.
C39_OtherGuildUntouched ==
  [][(calls'[1].n = calls[1].n + 1 /\ calls'[1].guild \in Servers) =>
       LET c == calls'[1]
       IN /\ RowsOfOthers(c.guild, repositories', trackedBranches', eventChannels')
               = RowsOfOthers(c.guild, repositories, trackedBranches, eventChannels)
          /\ (c.fn \in {"link", "unlink", "remove-repo"}
                /\ FindRepositoryOfGuildFrom(1, c.guild, c.url) = NoRepo)
               => c.outcome = "notFound"
          /\ c.outcome = "notFound" =>
               UNCHANGED <<repositories, trackedBranches, eventChannels>>]_vars

\* a command given a URL that only another guild has configured, with
\* tracked branches, ended not-found
C39_Witness ==
  /\ calls[1].fn \in {"unlink", "remove-repo"}
  /\ calls[1].outcome = "notFound"
  /\ \E k \in 1..Len(repositories) :
       /\ repositories[k].serverId # calls[1].guild
       /\ repositories[k].url \in PossibleUrls(calls[1].url)
       /\ \E j \in 1..Len(trackedBranches) :
            trackedBranches[j].repositoryId = repositories[k].id

-----------------------------------------------------------------------------
(* /setup run again, then a webhook signed with the previous secret        *)

\* no /setup command is between two of its store calls
NoSetupRunning == \A i \in 1..Len(calls) : calls[i].at = "done"

\* webhooks for gh/a signed with the secret stored before the commands ran
\* and with the secret /setup generates
ResetupRequests ==
  {Request("json", UrlA, Sig(TRUE, k, RawBody), Payload("issues", "opened", <<>>, Null)) :
     k \in {"k1", "k3"}}

\* the commands run while no request is in flight, and a request is
\* processed while no command is running
ResetupStart == pc = "idle" /\ SetupStart
ResetupCheckLimit == pc = "idle" /\ SetupCheckLimit
ResetupFind == pc = "idle" /\ SetupFind
ResetupWrite == pc = "idle" /\ SetupWrite
ResetupReceive == NoSetupRunning /\ ReceiveFrom(ResetupRequests)

ResetupNext ==
  \/ ResetupStart
  \/ ResetupCheckLimit
  \/ ResetupFind
  \/ ResetupWrite
  \/ ResetupReceive
  \/ CheckContentType
  \/ CheckPayload
  \/ LookupRepositories
  \/ CheckSignature
  \/ ValidateSignature
  \/ CheckEvent
  \/ Dispatch
  \/ OuterCatch
  \/ DefaultChannelStart
  \/ DefaultChannelGuarded
  \/ GuardCheckLimit
  \/ DeliverFetch
  \/ DeliverSend
  \/ DeliverUpdate
  \/ HandlerReturned
  \/ Finish

SpecResetup == SetupInit /\ [][ResetupNext]_vars

\* /setup was run again in guild s1 for the repository gh/a, under one of
\* the forms of its URL, and wrote a new secret
SetupRanAgain ==
  \E i \in 1..Len(calls) :
    /\ calls[i].fn = "setup"
    /\ calls[i].guild = "s1"
    /\ CanonicalUrl(calls[i].url) = UrlA
    /\ calls[i].outcome \in {"updated", "created"}

\* C40: after /setup was run again for a configured repository, a webhook
\* signed with the previous secret validates for no repository of that
\* server: it is answered 401 (500 when the store lookup failed) and no
\* handler is dispatched.
C40_PreviousSecretRejected ==
  (SetupRanAgain /\ req.signature = Sig(TRUE, "k1", RawBody)) =>
     /\ ctx.serverId # "s1"
     /\ handler = Null
     /\ (pc = "done" /\ ~obs.storeFailed) => responses = <<401>>

====
